---------------------------- MODULE Spec2Model ----------------------------
(***************************************************************************)
(* SDD-Hoffy: the pipeline state machine (internal/pipeline/state.go), the *)
(* project configuration (internal/config/config.go) and the MCP tool      *)
(* handlers that drive it (internal/tools).                                *)
(*                                                                         *)
(* Seven specifications share the variables:                               *)
(*   SpecPipeline   the pipeline API (CanAdvance, Advance, MarkInProgress, *)
(*                  RequireStage, IsCompleted, StageIndex,                 *)
(*                  ClarityThreshold) and the context tool's               *)
(*                  clarityThresholdForMode applied to an arbitrary        *)
(*                  ProjectConfig, as json.Unmarshal of a sdd.json can     *)
(*                  produce it;                                            *)
(*   SpecLifecycle  Advance and MarkInProgress applied to a project from   *)
(*                  NewProjectConfig on;                                   *)
(*   SpecScorer     the scoring of a clarification round: the parse of the *)
(*                  dimension_scores argument and CalculateScore;          *)
(*   Spec           the tool handlers applied to the sdd.json persisted by *)
(*                  NewProjectConfig + Save, one request at a time;        *)
(*   SpecArtifacts  the tool handlers on a project whose artifact files    *)
(*                  may be removed between two requests;                   *)
(*   SpecConcurrent two handlers serving requests at the same time, each   *)
(*                  loading sdd.json in one step and saving it in a later  *)
(*                  one;                                                   *)
(*   SpecProgress   a caller that keeps invoking the tool of the current   *)
(*                  stage of a new project, under weak fairness.           *)
(*                                                                         *)
(* Timestamps are positions of a logical clock that moves on after every   *)
(* call that read it; the empty string of a started_at / completed_at      *)
(* field is 0.  The file system is taken to be reliable: reads, writes and *)
(* renders do not fail.                                                    *)
(***************************************************************************)
EXTENDS Integers, Sequences, FiniteSets, TLC

VARIABLES
    cfg,      \* the ProjectConfig: in memory (SpecPipeline) or persisted in sdd.json (Spec)
    files,    \* artifact stage -> number of times its markdown file was written (0: absent/empty)
    clock,    \* what pipeline.Now() / time.Now() returns
    last,     \* the last call: operation, input, outcome, and the state before it
    inflight  \* handler -> the request it is serving and the ProjectConfig it loaded

vars == <<cfg, files, clock, last, inflight>>

----------------------------------------------------------------------------
(* Bounds of the model *)

\* mutating pipeline calls in one behaviour of SpecLifecycle
MaxLifecycleCalls == 6
\* state-changing tool calls in one behaviour of SpecArtifacts
MaxArtifactCalls == 2
MaxConcurrentCalls == 1
MaxProgressCalls == 4
\* scoring calls in one behaviour of SpecScorer
MaxScorerCalls == 1
\* mutating pipeline calls in one behaviour of SpecPipeline
MaxPipelineCalls == 3
\* state-changing tool calls in one behaviour of Spec
MaxToolCalls == 7

----------------------------------------------------------------------------
(* config.go: modes, stages, stage registry *)

ModeGuided == "guided"
ModeExpert == "expert"

StageInit == "init"
StagePropose == "propose"
StageSpecify == "specify"
StageClarify == "clarify"
StageDesign == "design"
StageTasks == "tasks"
StageValidate == "validate"

StageOrder ==
    <<StageInit, StagePropose, StageSpecify, StageClarify,
      StageDesign, StageTasks, StageValidate>>

Stages == {StageOrder[i] : i \in 1..Len(StageOrder)}

\* Stages: the Order field of the metadata of each stage
StageMetadata ==
    [init |-> [Order |-> 0],
     propose |-> [Order |-> 1],
     specify |-> [Order |-> 2],
     clarify |-> [Order |-> 3],
     design |-> [Order |-> 4],
     tasks |-> [Order |-> 5],
     validate |-> [Order |-> 6]]

\* stageFilenames: the stages that own a markdown artifact
ArtifactStages ==
    {StagePropose, StageSpecify, StageClarify, StageDesign, StageTasks, StageValidate}

\* The zero value of StageStatus, which a Go map lookup returns for a missing key.
ZeroStatus ==
    [status |-> "", started_at |-> 0, completed_at |-> 0, iterations |-> 0]

PendingStatus ==
    [status |-> "pending", started_at |-> 0, completed_at |-> 0, iterations |-> 0]

\* st := cfg.StageStatus[stage]
GetStatus(c, stage) ==
    IF stage \in DOMAIN c.stage_status THEN c.stage_status[stage] ELSE ZeroStatus

\* cfg.StageStatus[stage] = st
PutStatus(c, stage, st) ==
    [c EXCEPT !.stage_status =
        [k \in (DOMAIN c.stage_status) \cup {stage} |->
            IF k = stage THEN st ELSE c.stage_status[k]]]

\* NewProjectConfig that creates the status of init only, leaving the other
\* stages to be created when they are first marked.
NewProjectConfig_OnlyInit(mode, now) ==
    [name |-> "project",
     description |-> "a project",
     version |-> "0.1.0",
     mode |-> mode,
     current_stage |-> StagePropose,
     created_at |-> now,
     updated_at |-> now,
     stage_status |->
        [s \in {StageInit} |->
            [status |-> "completed", started_at |-> now,
             completed_at |-> now, iterations |-> 1]],
     clarity_score |-> 0]

\* NewProjectConfig that starts the project at init, with init in progress.
NewProjectConfig_AtInit(mode, now) ==
    [name |-> "project",
     description |-> "a project",
     version |-> "0.1.0",
     mode |-> mode,
     current_stage |-> StageInit,
     created_at |-> now,
     updated_at |-> now,
     stage_status |->
        [s \in Stages |->
            IF s = StageInit
            THEN [status |-> "in_progress", started_at |-> now,
                  completed_at |-> 0, iterations |-> 1]
            ELSE PendingStatus],
     clarity_score |-> 0]

\* NewProjectConfig that leaves CurrentStage at its zero value.
NewProjectConfig_NoStage(mode, now) ==
    [NewProjectConfig_OnlyInit(mode, now) EXCEPT
        !.current_stage = "",
        !.stage_status = [s \in Stages |->
                             IF s = StageInit
                             THEN [status |-> "completed", started_at |-> now,
                                   completed_at |-> now, iterations |-> 1]
                             ELSE PendingStatus]]

NewProjectConfig(mode, now) ==
    [name |-> "project",
     description |-> "a project",
     version |-> "0.1.0",
     mode |-> mode,
     current_stage |-> StagePropose,
     created_at |-> now,
     updated_at |-> now,
     stage_status |->
        [s \in Stages |->
            IF s = StageInit
            THEN [status |-> "completed", started_at |-> now,
                  completed_at |-> now, iterations |-> 1]
            ELSE PendingStatus],
     clarity_score |-> 0]

----------------------------------------------------------------------------
(* pipeline/state.go *)

ClarityThresholdGuided == 70
ClarityThresholdExpert == 50

\* ClarityThreshold that returns the expert threshold whatever the mode.
ClarityThreshold_AlwaysExpert(mode) == ClarityThresholdExpert

ClarityThreshold(mode) ==
    IF mode = ModeExpert THEN ClarityThresholdExpert ELSE ClarityThresholdGuided

\* StageIndex that counts positions from 1.
StageIndex_OneBased(stage) ==
    IF \E i \in 1..Len(StageOrder) : StageOrder[i] = stage
    THEN CHOOSE i \in 1..Len(StageOrder) : StageOrder[i] = stage
    ELSE -1

\* Position of a stage in StageOrder counted from 0, or -1 if unknown.
StageIndex(stage) ==
    IF \E i \in 1..Len(StageOrder) : StageOrder[i] = stage
    THEN (CHOOSE i \in 1..Len(StageOrder) : StageOrder[i] = stage) - 1
    ELSE -1

\* CanAdvance with the gate comparison off by one (<= for <).
CanAdvance_GateOffByOne(c) ==
    IF c.current_stage = StageClarify /\ c.clarity_score <= ClarityThreshold(c.mode)
    THEN "clarity_gate"
    ELSE IF StageIndex(c.current_stage) < 0
    THEN "unknown_stage"
    ELSE IF StageIndex(c.current_stage) >= Len(StageOrder) - 1
    THEN "final_stage"
    ELSE "ok"

\* CanAdvance with the final-stage test off by one (> for >=).
CanAdvance_FinalOk(c) ==
    IF c.current_stage = StageClarify /\ c.clarity_score < ClarityThreshold(c.mode)
    THEN "clarity_gate"
    ELSE IF StageIndex(c.current_stage) < 0
    THEN "unknown_stage"
    ELSE IF StageIndex(c.current_stage) > Len(StageOrder) - 1
    THEN "final_stage"
    ELSE "ok"

\* The error CanAdvance returns; "ok" is nil.
CanAdvance(c) ==
    IF c.current_stage = StageClarify /\ c.clarity_score < ClarityThreshold(c.mode)
    THEN "clarity_gate"
    ELSE IF StageIndex(c.current_stage) < 0
    THEN "unknown_stage"
    ELSE IF StageIndex(c.current_stage) >= Len(StageOrder) - 1
    THEN "final_stage"
    ELSE "ok"

\* markCompleted that stores a fresh StageStatus instead of updating the stored one.
markCompleted_Fresh(c, stage, now) ==
    PutStatus(c, stage, [ZeroStatus EXCEPT !.status = "completed", !.completed_at = now])

markCompleted(c, stage, now) ==
    PutStatus(c, stage,
        [GetStatus(c, stage) EXCEPT !.status = "completed", !.completed_at = now])

\* markInProgress that counts an iteration only when it first starts the stage.
markInProgress_CountFirst(c, stage, now) ==
    LET st == GetStatus(c, stage) IN
    PutStatus(c, stage,
        [st EXCEPT !.status = "in_progress",
                   !.started_at = IF st.started_at = 0 THEN now ELSE st.started_at,
                   !.iterations = IF st.started_at = 0 THEN st.iterations + 1
                                  ELSE st.iterations])

\* markInProgress that leaves a stage that is already in progress as it is.
markInProgress_Once(c, stage, now) ==
    LET st == GetStatus(c, stage) IN
    IF st.status = "in_progress" THEN c
    ELSE PutStatus(c, stage,
            [st EXCEPT !.status = "in_progress",
                       !.started_at = IF st.started_at = 0 THEN now ELSE st.started_at,
                       !.iterations = st.iterations + 1])

\* markInProgress that overwrites started_at on every call.
markInProgress_Restart(c, stage, now) ==
    LET st == GetStatus(c, stage) IN
    PutStatus(c, stage,
        [st EXCEPT !.status = "in_progress",
                   !.started_at = now,
                   !.iterations = st.iterations + 1])

\* markInProgress that clears completed_at when it reopens a stage.
markInProgress_Reopen(c, stage, now) ==
    LET st == GetStatus(c, stage) IN
    PutStatus(c, stage,
        [st EXCEPT !.status = "in_progress",
                   !.started_at = IF st.started_at = 0 THEN now ELSE st.started_at,
                   !.completed_at = 0,
                   !.iterations = st.iterations + 1])

markInProgress(c, stage, now) ==
    LET st == GetStatus(c, stage) IN
    PutStatus(c, stage,
        [st EXCEPT !.status = "in_progress",
                   !.started_at = IF st.started_at = 0 THEN now ELSE st.started_at,
                   !.iterations = st.iterations + 1])

\* NextStage that skips a stage (idx+2, stopping at the end of the order).
NextStage_Skip(stage) ==
    IF StageIndex(stage) + 3 <= Len(StageOrder)
    THEN StageOrder[StageIndex(stage) + 3]
    ELSE StageOrder[Len(StageOrder)]

\* The stage Advance moves to: StageOrder[idx+1] (sequences here start at 1).
NextStage(stage) == StageOrder[StageIndex(stage) + 2]

\* Advance that marks the current stage completed before it validates.
Advance_MarkFirst(c, now) ==
    IF CanAdvance(c) # "ok"
    THEN [err |-> CanAdvance(c), cfg |-> markCompleted(c, c.current_stage, now)]
    ELSE LET nextStage == NextStage(c.current_stage)
             c1 == markCompleted(c, c.current_stage, now)
             c2 == [c1 EXCEPT !.current_stage = nextStage]
         IN [err |-> "ok", cfg |-> markInProgress(c2, nextStage, now)]

\* Advance that moves on without marking the stage it leaves completed.
Advance_NoComplete(c, now) ==
    IF CanAdvance(c) # "ok"
    THEN [err |-> CanAdvance(c), cfg |-> c]
    ELSE LET nextStage == NextStage(c.current_stage)
             c2 == [c EXCEPT !.current_stage = nextStage]
         IN [err |-> "ok", cfg |-> markInProgress(c2, nextStage, now)]

\* Advance that stamps updated_at when it succeeds.
Advance_Stamp(c, now) ==
    IF CanAdvance(c) # "ok"
    THEN [err |-> CanAdvance(c), cfg |-> c]
    ELSE LET nextStage == NextStage(c.current_stage)
             c1 == markCompleted(c, c.current_stage, now)
             c2 == [c1 EXCEPT !.current_stage = nextStage, !.updated_at = now]
         IN [err |-> "ok", cfg |-> markInProgress(c2, nextStage, now)]

\* Advance: the error returned and the ProjectConfig left behind.
Advance(c, now) ==
    IF CanAdvance(c) # "ok"
    THEN [err |-> CanAdvance(c), cfg |-> c]
    ELSE LET nextStage == NextStage(c.current_stage)
             c1 == markCompleted(c, c.current_stage, now)
             c2 == [c1 EXCEPT !.current_stage = nextStage]
         IN [err |-> "ok", cfg |-> markInProgress(c2, nextStage, now)]

MarkInProgress(c, now) == markInProgress(c, c.current_stage, now)

IsCompleted(c, stage) ==
    stage \in DOMAIN c.stage_status /\ c.stage_status[stage].status = "completed"

\* RequireStage that also refuses an unmet clarity gate.
RequireStage_Gate(c, expected) ==
    IF c.current_stage # expected \/ CanAdvance(c) = "clarity_gate"
    THEN "wrong_stage" ELSE "ok"

RequireStage(c, expected) ==
    IF c.current_stage # expected THEN "wrong_stage" ELSE "ok"

----------------------------------------------------------------------------
(* Shared helpers of the specifications *)

NoInput == [valid |-> TRUE, answers |-> FALSE, scores |-> <<>>, filter |-> ""]

Call(op, arg, err, input, steps, score) ==
    [op |-> op, arg |-> arg, err |-> err, resp |-> "", input |-> input, steps |-> steps,
     score |-> score, now |-> clock, pre |-> cfg, preFiles |-> files]

NoFiles == [s \in ArtifactStages |-> 0]

\* The handlers that can run at the same time, none of them serving a request.
Handlers == {1, 2}
NoRequests == [h \in Handlers |-> [pc |-> "idle"]]

----------------------------------------------------------------------------
(* SpecPipeline: the pipeline API on any ProjectConfig *)

AnyModes == {ModeGuided, ModeExpert, ""}
AnyStages == Stages \cup {"deploy"}
AnyScores == {49, 50, 69, 70}
AnyStatuses ==
    {PendingStatus,
     [status |-> "in_progress", started_at |-> 1, completed_at |-> 0, iterations |-> 1],
     [status |-> "completed", started_at |-> 1, completed_at |-> 1, iterations |-> 1]}

InitPipeline ==
    /\ clock = 2
    /\ files = NoFiles
    /\ \E mode \in AnyModes, stage \in AnyStages, score \in AnyScores, st \in AnyStatuses :
          cfg = [name |-> "project",
                 description |-> "a project",
                 version |-> "0.1.0",
                 mode |-> mode,
                 current_stage |-> stage,
                 created_at |-> 1,
                 updated_at |-> 1,
                 stage_status |-> [s \in Stages |-> st],
                 clarity_score |-> score]
    /\ last = [op |-> "none", arg |-> "", err |-> "ok", resp |-> "", input |-> NoInput,
               steps |-> <<>>, score |-> 0, now |-> clock, pre |-> cfg, preFiles |-> files]
    /\ inflight = NoRequests

PipelineBudget == clock - 2 < MaxPipelineCalls

CallCanAdvance ==
    /\ cfg' = cfg
    /\ last' = Call("CanAdvance", "", CanAdvance(cfg), NoInput, <<>>, 0)
    /\ UNCHANGED <<files, clock, inflight>>

CallAdvance ==
    /\ Advance(cfg, clock).err = "ok" => PipelineBudget
    /\ cfg' = Advance(cfg, clock).cfg
    /\ last' = Call("Advance", "", Advance(cfg, clock).err, NoInput, <<>>, 0)
    /\ clock' = IF Advance(cfg, clock).err = "ok" THEN clock + 1 ELSE clock
    /\ UNCHANGED <<files, inflight>>

CallMarkInProgress ==
    /\ PipelineBudget
    /\ cfg' = MarkInProgress(cfg, clock)
    /\ last' = Call("MarkInProgress", "", "ok", NoInput, <<>>, 0)
    /\ clock' = clock + 1
    /\ UNCHANGED <<files, inflight>>

\* A RequireStage call that marks the stage in progress when it matches.
CallRequireStage_Marks ==
    \E expected \in AnyStages :
        /\ cfg' = IF RequireStage(cfg, expected) = "ok"
                  THEN markInProgress(cfg, expected, clock) ELSE cfg
        /\ last' = Call("RequireStage", expected, RequireStage(cfg, expected), NoInput, <<>>, 0)
        /\ UNCHANGED <<files, clock, inflight>>

CallRequireStage ==
    \E expected \in AnyStages :
        /\ cfg' = cfg
        /\ last' = Call("RequireStage", expected, RequireStage(cfg, expected), NoInput, <<>>, 0)
        /\ UNCHANGED <<files, clock, inflight>>

\* The value returned is recorded in last.resp.
CallIsCompleted ==
    \E stage \in AnyStages :
        /\ cfg' = cfg
        /\ last' = [Call("IsCompleted", stage, "ok", NoInput, <<>>, 0)
                        EXCEPT !.resp = IsCompleted(cfg, stage)]
        /\ UNCHANGED <<files, clock, inflight>>

\* The value returned is recorded in last.score.
CallStageIndex ==
    \E stage \in AnyStages :
        /\ cfg' = cfg
        /\ last' = Call("StageIndex", stage, "ok", NoInput, <<>>, StageIndex(stage))
        /\ UNCHANGED <<files, clock, inflight>>

\* clarityThresholdForMode that knows the guided mode and treats every other
\* mode as expert.
clarityThresholdForMode_GuidedOnly(mode) ==
    IF mode = ModeGuided THEN 70 ELSE 50

\* cmd/sdd-hoffy/main.go: the threshold the context tool shows in its overview.
clarityThresholdForMode(mode) ==
    IF mode = ModeExpert THEN 50 ELSE 70

\* The value returned is recorded in last.score.
CallClarityThresholdForMode ==
    \E mode \in AnyModes :
        /\ cfg' = cfg
        /\ last' = Call("clarityThresholdForMode", mode, "ok", NoInput, <<>>,
                        clarityThresholdForMode(mode))
        /\ UNCHANGED <<files, clock, inflight>>

\* The value returned is recorded in last.score.
CallClarityThreshold ==
    \E mode \in AnyModes :
        /\ cfg' = cfg
        /\ last' = Call("ClarityThreshold", mode, "ok", NoInput, <<>>, ClarityThreshold(mode))
        /\ UNCHANGED <<files, clock, inflight>>

NextPipeline ==
    \/ CallCanAdvance
    \/ CallAdvance
    \/ CallMarkInProgress
    \/ CallRequireStage
    \/ CallIsCompleted
    \/ CallStageIndex
    \/ CallClarityThreshold
    \/ CallClarityThresholdForMode

SpecPipeline == InitPipeline /\ [][NextPipeline]_vars

----------------------------------------------------------------------------
(* SpecLifecycle: the pipeline API on a project from its creation on *)

InitLifecycle ==
    /\ clock = 2
    /\ files = NoFiles
    /\ \E mode \in {ModeGuided, ModeExpert} : cfg = NewProjectConfig(mode, 1)
    /\ last = [op |-> "none", arg |-> "", err |-> "ok", resp |-> "", input |-> NoInput,
               steps |-> <<>>, score |-> 0, now |-> clock, pre |-> cfg, preFiles |-> files]
    /\ inflight = NoRequests

LifecycleBudget == clock - 2 < MaxLifecycleCalls

LifecycleAdvance ==
    /\ Advance(cfg, clock).err = "ok" => LifecycleBudget
    /\ cfg' = Advance(cfg, clock).cfg
    /\ last' = Call("Advance", "", Advance(cfg, clock).err, NoInput, <<>>, 0)
    /\ clock' = IF Advance(cfg, clock).err = "ok" THEN clock + 1 ELSE clock
    /\ UNCHANGED <<files, inflight>>

LifecycleMarkInProgress ==
    /\ LifecycleBudget
    /\ cfg' = MarkInProgress(cfg, clock)
    /\ last' = Call("MarkInProgress", "", "ok", NoInput, <<>>, 0)
    /\ clock' = clock + 1
    /\ UNCHANGED <<files, inflight>>

\* cfg.ClarityScore = newScore, as the clarify round does at stage clarify
LifecycleStoreScore ==
    \E newScore \in AnyScores :
        /\ cfg.current_stage = StageClarify
        /\ cfg' = [cfg EXCEPT !.clarity_score = newScore]
        /\ last' = Call("StoreScore", "", "ok", NoInput, <<>>, newScore)
        /\ UNCHANGED <<files, clock, inflight>>

NextLifecycle ==
    \/ LifecycleAdvance
    \/ LifecycleMarkInProgress
    \/ LifecycleStoreScore

SpecLifecycle == InitLifecycle /\ [][NextLifecycle]_vars

----------------------------------------------------------------------------
(* pipeline: the clarity dimensions and the scorer *)

DimNames ==
    <<"target_users", "core_functionality", "data_model", "integrations",
      "edge_cases", "security", "scale_performance", "scope_boundaries">>

DimWeights == <<10, 10, 9, 7, 9, 8, 6, 8>>

\* A fresh set of the eight dimensions: fixed weights, score 0, not covered.
DefaultDimensions ==
    [i \in 1..Len(DimNames) |->
        [name |-> DimNames[i], weight |-> DimWeights[i], score |-> 0, covered |-> FALSE]]

RECURSIVE WeightSum(_, _)
WeightSum(dims, n) ==
    IF n = 0 THEN 0 ELSE WeightSum(dims, n - 1) + dims[n].weight

RECURSIVE WeightedSum(_, _)
WeightedSum(dims, n) ==
    IF n = 0 THEN 0 ELSE WeightedSum(dims, n - 1) + dims[n].weight * dims[n].score

\* CalculateScore that truncates the average instead of rounding it.
CalculateScore_Truncate(dims) ==
    LET total == WeightSum(dims, Len(dims))
        sum == WeightedSum(dims, Len(dims))
    IN IF Len(dims) = 0 \/ total = 0 THEN 0
       ELSE sum \div total

\* round(sum(weight * score) / sum(weight)), 0 for an empty set or zero weights
CalculateScore(dims) ==
    LET total == WeightSum(dims, Len(dims))
        sum == WeightedSum(dims, Len(dims))
    IN IF Len(dims) = 0 \/ total = 0 THEN 0
       ELSE (2 * sum + total) \div (2 * total)

\* The dimensions that are not covered, in the fixed order.
UncoveredDimensions(dims) == SelectSeq(dims, LAMBDA d : ~d.covered)

----------------------------------------------------------------------------
(* tools/clarify.go: parseDimensionScores *)

(* The dimension_scores string is the sequence of the pairs that            *)
(* strings.Split(input, ",") yields; the empty string is the empty sequence *)
(* (its single empty pair has no colon).  A pair is what                    *)
(* strings.SplitN(strings.TrimSpace(pair), ":", 2) makes of it: whether it  *)
(* has a colon, the trimmed name before the first colon, and the text after *)
(* it, a sequence of characters.  The texts of the model hold at most four  *)
(* digits, so no integer is out of the range of int.                        *)
TextPair(name, text) == [colon |-> TRUE, name |-> name, text |-> text]

Digit == <<"0", "1", "2", "3", "4", "5", "6", "7", "8", "9">>

IsDigit(ch) == ch \in {"0", "1", "2", "3", "4", "5", "6", "7", "8", "9"}

DigitValue(ch) == (CHOOSE d \in 1..10 : Digit[d] = ch) - 1

\* strconv.Itoa, as a caller writes an integer score into the string
RECURSIVE Itoa(_)
Itoa(n) ==
    IF n < 0 THEN <<"-">> \o Itoa(-n)
    ELSE IF n < 10 THEN <<Digit[n + 1]>>
    ELSE Itoa(n \div 10) \o <<Digit[(n % 10) + 1]>>

IntPair(name, val) == TextPair(name, Itoa(val))
NanPair(name) == TextPair(name, <<"a", "b", "c">>)
NoColonPair == [colon |-> FALSE, name |-> "garbage input without colons", text |-> <<>>]

RECURSIVE SkipSpace(_)
SkipSpace(text) ==
    IF text # <<>> /\ Head(text) = " " THEN SkipSpace(Tail(text)) ELSE text

\* The longest prefix of digits.
RECURSIVE ScanNumber(_)
ScanNumber(text) ==
    IF text # <<>> /\ IsDigit(Head(text))
    THEN <<Head(text)>> \o ScanNumber(Tail(text))
    ELSE <<>>

RECURSIVE ParseInt(_, _)
ParseInt(tok, n) ==
    IF n = 0 THEN 0 ELSE 10 * ParseInt(tok, n - 1) + DigitValue(tok[n])

\* fmt.Sscanf(text, "%d", &score): leading spaces are skipped, a sign is
\* accepted, the digits that follow are the integer, and what comes after them
\* is not read; err is nil (ok) when there was at least one digit.
Sscanf(text) ==
    LET t == SkipSpace(text)
        signed == t # <<>> /\ Head(t) \in {"+", "-"}
        tok == ScanNumber(IF signed THEN Tail(t) ELSE t)
    IN IF tok = <<>>
       THEN [ok |-> FALSE, score |-> 0]
       ELSE [ok |-> TRUE,
             score |-> IF signed /\ Head(t) = "-"
                       THEN 0 - ParseInt(tok, Len(tok)) ELSE ParseInt(tok, Len(tok))]

\* The clamp of parseDimensionScores without its upper bound.
Clamp_NoUpper(score) == IF score < 0 THEN 0 ELSE score

\* The clamp of parseDimensionScores without its lower bound.
Clamp_NoLower(score) == IF score > 100 THEN 100 ELSE score

Clamp(score) == IF score < 0 THEN 0 ELSE IF score > 100 THEN 100 ELSE score

\* scoreMap after the first n pairs: a later pair of a name replaces an earlier one.
RECURSIVE ScoreMap(_, _)
ScoreMap(pairs, n) ==
    IF n = 0 THEN <<>>
    ELSE LET m == ScoreMap(pairs, n - 1)
             p == pairs[n]
             scanned == Sscanf(p.text)
         IN IF p.colon /\ scanned.ok
            THEN [k \in (DOMAIN m) \cup {p.name} |->
                    IF k = p.name THEN Clamp(scanned.score) ELSE m[k]]
            ELSE m

\* parseDimensionScores that takes a score of 30 as covered.
parseDimensionScores_CoveredAt30(input, dimensions) ==
    LET scoreMap == ScoreMap(input, Len(input)) IN
    [i \in 1..Len(dimensions) |->
        IF dimensions[i].name \in DOMAIN scoreMap
        THEN [dimensions[i] EXCEPT !.score = scoreMap[dimensions[i].name],
                                   !.covered = scoreMap[dimensions[i].name] >= 30]
        ELSE dimensions[i]]

parseDimensionScores(input, dimensions) ==
    LET scoreMap == ScoreMap(input, Len(input)) IN
    [i \in 1..Len(dimensions) |->
        IF dimensions[i].name \in DOMAIN scoreMap
        THEN [dimensions[i] EXCEPT !.score = scoreMap[dimensions[i].name],
                                   !.covered = scoreMap[dimensions[i].name] > 30]
        ELSE dimensions[i]]

----------------------------------------------------------------------------
(* tools: the handlers.  A handler is a function of the persisted state and *)
(* its arguments; its value is what it leaves behind: the ProjectConfig in  *)
(* sdd.json, the artifact files, the result, and the calls it made.         *)

Out(c, f, err, resp, steps, score, wrote) ==
    [cfg |-> c, files |-> f, err |-> err, resp |-> resp, steps |-> steps,
     score |-> score, wrote |-> wrote]

\* Save that leaves the mode out of sdd.json, so that the next Load finds none.
Save_DropMode(c, now) == [c EXCEPT !.updated_at = now, !.mode = ""]

\* FileStore.Save: stamps updated_at and writes sdd.json
Save(c, now) == [c EXCEPT !.updated_at = now]

\* writeStageFile on the artifact of a stage
WriteStageFile(f, stage) == [f EXCEPT ![stage] = f[stage] + 1]

\* readStageFile(...) == "" for the artifact of some stage of the set
AnyEmpty(f, stages) == \E s \in stages : f[s] = 0

\* The handler reads the artifacts it requires, if any.
Reads(required) == IF required = {} THEN <<>> ELSE <<"Read">>

\* A handler that does its work without calling RequireStage.
AdvancingHandle_NoStageCheck(c, f, now, valid, stage, required) ==
    IF ~valid
    THEN Out(c, f, "missing_field", "", <<>>, 0, FALSE)
    ELSE IF AnyEmpty(f, required)
    THEN Out(c, f, "missing_artifact", "", <<"Load">> \o Reads(required), 0, FALSE)
    ELSE LET c1 == MarkInProgress(c, now)
             f1 == WriteStageFile(f, stage)
             adv == Advance(c1, now)
         IN IF adv.err # "ok"
            THEN Out(c, f1, adv.err, "",
                     <<"Load">> \o Reads(required) \o
                     <<"MarkInProgress", "Write", "Advance">>, 0, TRUE)
            ELSE Out(Save(adv.cfg, now), f1, "ok", "advanced",
                     <<"Load">> \o Reads(required) \o
                     <<"MarkInProgress", "Write", "Advance", "Save">>,
                     0, TRUE)

\* A handler that does not look at the artifacts it requires.
AdvancingHandle_NoArtifactCheck(c, f, now, valid, stage, required) ==
    IF ~valid
    THEN Out(c, f, "missing_field", "", <<>>, 0, FALSE)
    ELSE IF RequireStage(c, stage) # "ok"
    THEN Out(c, f, "wrong_stage", "", <<"Load", "RequireStage">>, 0, FALSE)
    ELSE LET c1 == MarkInProgress(c, now)
             f1 == WriteStageFile(f, stage)
             adv == Advance(c1, now)
         IN IF adv.err # "ok"
            THEN Out(c, f1, adv.err, "",
                     <<"Load", "RequireStage", "MarkInProgress", "Write", "Advance">>,
                     0, TRUE)
            ELSE Out(Save(adv.cfg, now), f1, "ok", "advanced",
                     <<"Load", "RequireStage", "MarkInProgress", "Write", "Advance",
                       "Save">>, 0, TRUE)

\* A handler that saves the ProjectConfig before it calls Advance.
AdvancingHandle_SaveFirst(c, f, now, valid, stage, required) ==
    IF ~valid
    THEN Out(c, f, "missing_field", "", <<>>, 0, FALSE)
    ELSE IF RequireStage(c, stage) # "ok"
    THEN Out(c, f, "wrong_stage", "", <<"Load", "RequireStage">>, 0, FALSE)
    ELSE IF AnyEmpty(f, required)
    THEN Out(c, f, "missing_artifact", "", <<"Load", "RequireStage">> \o Reads(required), 0, FALSE)
    ELSE LET c1 == MarkInProgress(c, now)
             f1 == WriteStageFile(f, stage)
             adv == Advance(c1, now)
         IN Out(Save(c1, now), f1, adv.err, "advanced",
                <<"Load", "RequireStage">> \o Reads(required) \o
                     <<"MarkInProgress", "Write", "Save",
                  "Advance">>, 0, TRUE)

\* A handler that advances and saves without writing its artifact.
AdvancingHandle_NoWrite(c, f, now, valid, stage, required) ==
    IF ~valid
    THEN Out(c, f, "missing_field", "", <<>>, 0, FALSE)
    ELSE IF RequireStage(c, stage) # "ok"
    THEN Out(c, f, "wrong_stage", "", <<"Load", "RequireStage">>, 0, FALSE)
    ELSE IF AnyEmpty(f, required)
    THEN Out(c, f, "missing_artifact", "", <<"Load", "RequireStage">> \o Reads(required), 0, FALSE)
    ELSE LET c1 == MarkInProgress(c, now)
             adv == Advance(c1, now)
         IN IF adv.err # "ok"
            THEN Out(c, f, adv.err, "",
                     <<"Load", "RequireStage">> \o Reads(required) \o
                     <<"MarkInProgress", "Advance">>, 0, TRUE)
            ELSE Out(Save(adv.cfg, now), f, "ok", "advanced",
                     <<"Load", "RequireStage">> \o Reads(required) \o
                     <<"MarkInProgress", "Advance", "Save">>, 0, TRUE)

\* A handler that does not mark its stage in progress before it advances.
AdvancingHandle_NoMark(c, f, now, valid, stage, required) ==
    IF ~valid
    THEN Out(c, f, "missing_field", "", <<>>, 0, FALSE)
    ELSE IF RequireStage(c, stage) # "ok"
    THEN Out(c, f, "wrong_stage", "", <<"Load", "RequireStage">>, 0, FALSE)
    ELSE IF AnyEmpty(f, required)
    THEN Out(c, f, "missing_artifact", "", <<"Load", "RequireStage">> \o Reads(required), 0, FALSE)
    ELSE LET f1 == WriteStageFile(f, stage)
             adv == Advance(c, now)
         IN IF adv.err # "ok"
            THEN Out(c, f1, adv.err, "",
                     <<"Load", "RequireStage">> \o Reads(required) \o
                     <<"Write", "Advance">>, 0, TRUE)
            ELSE Out(Save(adv.cfg, now), f1, "ok", "advanced",
                     <<"Load", "RequireStage">> \o Reads(required) \o
                     <<"Write", "Advance", "Save">>, 0, TRUE)

\* The handlers of propose, specify, design and tasks differ in their stage and
\* in the artifacts they require.
AdvancingHandle(c, f, now, valid, stage, required) ==
    IF ~valid
    THEN Out(c, f, "missing_field", "", <<>>, 0, FALSE)
    ELSE IF RequireStage(c, stage) # "ok"
    THEN Out(c, f, "wrong_stage", "", <<"Load", "RequireStage">>, 0, FALSE)
    ELSE IF AnyEmpty(f, required)
    THEN Out(c, f, "missing_artifact", "", <<"Load", "RequireStage">> \o Reads(required), 0, FALSE)
    ELSE LET c1 == MarkInProgress(c, now)
             f1 == WriteStageFile(f, stage)
             adv == Advance(c1, now)
         IN IF adv.err # "ok"
            THEN Out(c, f1, adv.err, "",
                     <<"Load", "RequireStage">> \o Reads(required) \o
                     <<"MarkInProgress", "Write", "Advance">>,
                     0, TRUE)
            ELSE Out(Save(adv.cfg, now), f1, "ok", "advanced",
                     <<"Load", "RequireStage">> \o Reads(required) \o
                     <<"MarkInProgress", "Write", "Advance",
                       "Save">>, 0, TRUE)

ProposeHandle(c, f, now, valid) ==
    AdvancingHandle(c, f, now, valid, StagePropose, {})

SpecifyHandle(c, f, now, valid) ==
    AdvancingHandle(c, f, now, valid, StageSpecify, {StagePropose})

DesignHandle(c, f, now, valid) ==
    AdvancingHandle(c, f, now, valid, StageDesign, {StageSpecify})

TasksHandle(c, f, now, valid) ==
    AdvancingHandle(c, f, now, valid, StageTasks, {StageDesign})

\* ClarifyTool.generateQuestions, cfg already marked in progress
GenerateQuestions(c, f, now) ==
    Out(Save(c, now), f, "ok", "questions",
        <<"Load", "RequireStage", "Read", "MarkInProgress", "Save">>, 0, TRUE)

\* processAnswers that calls Advance before it stores the new score.
ProcessAnswers_AdvanceFirst(c0, c, f, now, dimensionScores, threshold) ==
    LET dimensions == IF Len(dimensionScores) # 0
                      THEN parseDimensionScores(dimensionScores, DefaultDimensions)
                      ELSE DefaultDimensions
        newScore == CalculateScore(dimensions)
        f1 == WriteStageFile(WriteStageFile(f, StageClarify), StageClarify)
        adv == Advance(c, now)
    IN IF newScore >= threshold
       THEN IF adv.err # "ok"
            THEN Out(c0, f1, adv.err, "",
                     <<"Load", "RequireStage", "Read", "MarkInProgress", "Write", "Write",
                       "Advance">>, newScore, TRUE)
            ELSE Out(Save([adv.cfg EXCEPT !.clarity_score = newScore], now), f1, "ok",
                     "gate_passed",
                     <<"Load", "RequireStage", "Read", "MarkInProgress", "Write", "Write",
                       "Advance", "StoreScore", "Save">>, newScore, TRUE)
       ELSE Out(Save([c EXCEPT !.clarity_score = newScore], now), f1, "ok", "more_needed",
                <<"Load", "RequireStage", "Read", "MarkInProgress", "Write", "Write",
                  "StoreScore", "Save">>, newScore, TRUE)

\* processAnswers that stores the new score only when the gate is passed.
ProcessAnswers_StoreOnPass(c0, c, f, now, dimensionScores, threshold) ==
    LET dimensions == IF Len(dimensionScores) # 0
                      THEN parseDimensionScores(dimensionScores, DefaultDimensions)
                      ELSE DefaultDimensions
        newScore == CalculateScore(dimensions)
        c1 == [c EXCEPT !.clarity_score = newScore]
        f1 == WriteStageFile(WriteStageFile(f, StageClarify), StageClarify)
        adv == Advance(c1, now)
    IN IF newScore >= threshold
       THEN IF adv.err # "ok"
            THEN Out(c0, f1, adv.err, "",
                     <<"Load", "RequireStage", "Read", "MarkInProgress", "StoreScore",
                       "Write", "Write",
                       "Advance">>, newScore, TRUE)
            ELSE Out(Save(adv.cfg, now), f1, "ok", "gate_passed",
                     <<"Load", "RequireStage", "Read", "MarkInProgress", "StoreScore",
                       "Write", "Write",
                       "Advance", "Save">>, newScore, TRUE)
       ELSE Out(Save(c, now), f1, "ok", "more_needed",
                <<"Load", "RequireStage", "Read", "MarkInProgress", "StoreScore",
                       "Write", "Write",
                  "Save">>, newScore, TRUE)

\* processAnswers that never lets the stored score go down: it keeps the
\* previous clarity_score when the round scores lower.
ProcessAnswers_KeepBest(c0, c, f, now, dimensionScores, threshold) ==
    LET dimensions == IF Len(dimensionScores) # 0
                      THEN parseDimensionScores(dimensionScores, DefaultDimensions)
                      ELSE DefaultDimensions
        roundScore == CalculateScore(dimensions)
        newScore == IF roundScore < c.clarity_score THEN c.clarity_score ELSE roundScore
        c1 == [c EXCEPT !.clarity_score = newScore]
        f1 == WriteStageFile(WriteStageFile(f, StageClarify), StageClarify)
        adv == Advance(c1, now)
    IN IF newScore >= threshold
       THEN IF adv.err # "ok"
            THEN Out(c0, f1, adv.err, "",
                     <<"Load", "RequireStage", "Read", "MarkInProgress", "StoreScore",
                       "Write", "Write", "Advance">>, newScore, TRUE)
            ELSE Out(Save(adv.cfg, now), f1, "ok", "gate_passed",
                     <<"Load", "RequireStage", "Read", "MarkInProgress", "StoreScore",
                       "Write", "Write", "Advance", "Save">>, newScore, TRUE)
       ELSE Out(Save(c1, now), f1, "ok", "more_needed",
                <<"Load", "RequireStage", "Read", "MarkInProgress", "StoreScore",
                  "Write", "Write", "Save">>, newScore, TRUE)

\* ClarifyTool.processAnswers, cfg already marked in progress
ProcessAnswers(c0, c, f, now, dimensionScores, threshold) ==
    LET dimensions == IF Len(dimensionScores) # 0
                      THEN parseDimensionScores(dimensionScores, DefaultDimensions)
                      ELSE DefaultDimensions
        newScore == CalculateScore(dimensions)
        c1 == [c EXCEPT !.clarity_score = newScore]
        f1 == WriteStageFile(WriteStageFile(f, StageClarify), StageClarify)
        adv == Advance(c1, now)
    IN IF newScore >= threshold
       THEN IF adv.err # "ok"
            THEN Out(c0, f1, adv.err, "",
                     <<"Load", "RequireStage", "Read", "MarkInProgress", "StoreScore",
                       "Write", "Write",
                       "Advance">>, newScore, TRUE)
            ELSE Out(Save(adv.cfg, now), f1, "ok", "gate_passed",
                     <<"Load", "RequireStage", "Read", "MarkInProgress", "StoreScore",
                       "Write", "Write",
                       "Advance", "Save">>, newScore, TRUE)
       ELSE Out(Save(c1, now), f1, "ok", "more_needed",
                <<"Load", "RequireStage", "Read", "MarkInProgress", "StoreScore",
                       "Write", "Write",
                  "Save">>, newScore, TRUE)

ClarifyHandle(c, f, now, answers, dimensionScores) ==
    IF RequireStage(c, StageClarify) # "ok"
    THEN Out(c, f, "wrong_stage", "", <<"Load", "RequireStage">>, 0, FALSE)
    ELSE IF AnyEmpty(f, {StageSpecify})
    THEN Out(c, f, "missing_artifact", "", <<"Load", "RequireStage", "Read">>, 0, FALSE)
    ELSE IF ~answers
    THEN GenerateQuestions(MarkInProgress(c, now), f, now)
    ELSE ProcessAnswers(c, MarkInProgress(c, now), f, now, dimensionScores,
                        ClarityThreshold(c.mode))

\* ValidateTool.Handle that saves without marking the validate stage completed.
ValidateHandle_NoComplete(c, f, now, valid) ==
    IF ~valid
    THEN Out(c, f, "missing_field", "", <<>>, 0, FALSE)
    ELSE IF RequireStage(c, StageValidate) # "ok"
    THEN Out(c, f, "wrong_stage", "", <<"Load", "RequireStage">>, 0, FALSE)
    ELSE IF AnyEmpty(f, {StagePropose, StageSpecify, StageClarify, StageDesign, StageTasks})
    THEN Out(c, f, "missing_artifact", "", <<"Load", "RequireStage", "Read">>, 0, FALSE)
    ELSE Out(Save(MarkInProgress(c, now), now), WriteStageFile(f, StageValidate), "ok",
             "validated",
             <<"Load", "RequireStage", "Read", "MarkInProgress", "Write", "Save">>,
             0, TRUE)

\* ValidateTool.Handle that ends like the other stage tools, with Advance.
ValidateHandle_Advance(c, f, now, valid) ==
    IF ~valid
    THEN Out(c, f, "missing_field", "", <<>>, 0, FALSE)
    ELSE IF RequireStage(c, StageValidate) # "ok"
    THEN Out(c, f, "wrong_stage", "", <<"Load", "RequireStage">>, 0, FALSE)
    ELSE IF AnyEmpty(f, {StagePropose, StageSpecify, StageClarify, StageDesign, StageTasks})
    THEN Out(c, f, "missing_artifact", "", <<"Load", "RequireStage", "Read">>, 0, FALSE)
    ELSE LET c1 == MarkInProgress(c, now)
             f1 == WriteStageFile(f, StageValidate)
             adv == Advance(c1, now)
         IN IF adv.err # "ok"
            THEN Out(c, f1, adv.err, "",
                     <<"Load", "RequireStage", "Read", "MarkInProgress", "Write", "Advance">>,
                     0, TRUE)
            ELSE Out(Save(adv.cfg, now), f1, "ok", "validated",
                     <<"Load", "RequireStage", "Read", "MarkInProgress", "Write", "Advance",
                       "Save">>, 0, TRUE)

ValidateHandle(c, f, now, valid) ==
    IF ~valid
    THEN Out(c, f, "missing_field", "", <<>>, 0, FALSE)
    ELSE IF RequireStage(c, StageValidate) # "ok"
    THEN Out(c, f, "wrong_stage", "", <<"Load", "RequireStage">>, 0, FALSE)
    ELSE IF AnyEmpty(f, {StagePropose, StageSpecify, StageClarify, StageDesign, StageTasks})
    THEN Out(c, f, "missing_artifact", "", <<"Load", "RequireStage", "Read">>, 0, FALSE)
    ELSE LET c1 == MarkInProgress(c, now)
             f1 == WriteStageFile(f, StageValidate)
             c2 == PutStatus(c1, StageValidate,
                       [GetStatus(c1, StageValidate) EXCEPT !.status = "completed",
                                                            !.completed_at = now])
         IN Out(Save(c2, now), f1, "ok", "validated",
                <<"Load", "RequireStage", "Read", "MarkInProgress", "Write", "Save">>,
                0, TRUE)

\* A context tool that creates the artifact file it was asked for.
ContextHandle_CreateMissing(c, f, stageFilter) ==
    IF stageFilter # "" /\ stageFilter \notin ArtifactStages
    THEN Out(c, f, "unknown_stage", "", <<"Load">>, 0, FALSE)
    ELSE IF stageFilter = ""
    THEN Out(c, f, "ok", "overview", <<"Load", "Read">>, 0, FALSE)
    ELSE Out(c, WriteStageFile(f, stageFilter), "ok", "content",
             <<"Load", "Read", "Write">>, 0, TRUE)

\* ContextTool.Handle: an overview, or the artifact of the stage asked for
ContextHandle(c, f, stageFilter) ==
    IF stageFilter # "" /\ stageFilter \notin ArtifactStages
    THEN Out(c, f, "unknown_stage", "", <<"Load">>, 0, FALSE)
    ELSE Out(c, f, "ok", IF stageFilter = "" THEN "overview" ELSE "content",
             <<"Load", "Read">>, 0, FALSE)

----------------------------------------------------------------------------
(* SpecScorer: the score of a clarification round, from the dimension_scores *)
(* argument to the clarity_score of the ProjectConfig                        *)

\* A project brought to stage clarify by sdd_create_proposal and
\* sdd_generate_requirements, and the artifacts they wrote.
AtClarify(mode) ==
    LET proposed == ProposeHandle(NewProjectConfig(mode, 1), NoFiles, 2, TRUE)
    IN SpecifyHandle(proposed.cfg, proposed.files, 3, TRUE)

ParseNames == {"target_users", "core_functionality", "performance"}
ParseScores == {0 - 10, 0, 30, 31, 100, 150}

\* Score texts that are not the decimal form of an integer: "80abc", "7.5",
\* " 40", "+50", "", "-", "abc".
OddTexts ==
    {<<"8", "0", "a", "b", "c">>, <<"7", ".", "5">>, <<" ", "4", "0">>,
     <<"+", "5", "0">>, <<>>, <<"-">>, <<"a", "b", "c">>}

ParsePairs ==
    {IntPair(name, val) : name \in ParseNames, val \in ParseScores}
    \cup {TextPair("security", text) : text \in OddTexts}
    \cup {NoColonPair}

\* The first pair of the two-pair arguments.
FirstPairs ==
    {IntPair("target_users", 150), IntPair("target_users", 30),
     IntPair("security", 70), NoColonPair}

\* dimension_scores arguments of at most two pairs, and those of the tool's tests
ParseInputs ==
    {<<>>}
    \cup {<<p>> : p \in ParsePairs}
    \cup {<<p, q>> : p \in FirstPairs, q \in ParsePairs}
    \cup {<<IntPair("target_users", 80), IntPair("core_functionality", 90)>>,
          <<IntPair("target_users", 80), IntPair("core_functionality", 90),
            IntPair("data_model", 60), IntPair("integrations", 50),
            IntPair("edge_cases", 55), IntPair("security", 70),
            IntPair("scale_performance", 60), IntPair("scope_boundaries", 85)>>,
          <<IntPair("target_users", 30), IntPair("core_functionality", 40),
            IntPair("data_model", 20)>>}

AnyWeights == {0, 1, 10}
AnyDimensionScores == {0, 50, 100}

AnyDimensions ==
    {[name |-> DimNames[1], weight |-> w, score |-> v, covered |-> v > 30] :
        w \in AnyWeights, v \in AnyDimensionScores}

\* The eight dimensions, equally weighted, with the scores of the passing round.
EqualWeights ==
    [i \in 1..Len(DimNames) |->
        [name |-> DimNames[i], weight |-> 1,
         score |-> <<80, 90, 60, 50, 55, 70, 60, 85>>[i], covered |-> TRUE]]

\* Dimension sets of zero to two dimensions, empty and zero-weight sets included,
\* and the equally weighted eight.
AnyDimensionSets ==
    {<<>>}
    \cup {<<d>> : d \in AnyDimensions}
    \cup {<<d, e>> : d \in AnyDimensions, e \in AnyDimensions}
    \cup {EqualWeights}

InitScorer ==
    /\ clock = 4
    /\ \E mode \in {ModeGuided, ModeExpert} :
          /\ cfg = AtClarify(mode).cfg
          /\ files = AtClarify(mode).files
    /\ last = [op |-> "none", arg |-> "", err |-> "ok", resp |-> "", input |-> NoInput,
               steps |-> <<>>, score |-> 0, now |-> clock, pre |-> cfg, preFiles |-> files]
    /\ inflight = NoRequests

ScorerBudget == clock - 4 < MaxScorerCalls

\* processAnswers up to cfg.ClarityScore = newScore: a fresh dimension set, the
\* parse of dimension_scores into it, its score, and the score stored.
CallParseDimensionScores ==
    \E input \in ParseInputs :
        LET dimensions == IF Len(input) # 0
                          THEN parseDimensionScores(input, DefaultDimensions)
                          ELSE DefaultDimensions
            newScore == CalculateScore(dimensions)
        IN /\ ScorerBudget
           /\ cfg' = [cfg EXCEPT !.clarity_score = newScore]
           /\ last' = [Call("parseDimensionScores", "", "ok",
                            [NoInput EXCEPT !.answers = TRUE, !.scores = input],
                            <<>>, newScore)
                         EXCEPT !.resp = dimensions]
           /\ clock' = clock + 1
           /\ UNCHANGED <<files, inflight>>

\* pipeline.CalculateScore on any dimension set
CallCalculateScore ==
    \E dimensions \in AnyDimensionSets :
        /\ ScorerBudget
        /\ last' = Call("CalculateScore", dimensions, "ok", NoInput, <<>>,
                        CalculateScore(dimensions))
        /\ clock' = clock + 1
        /\ UNCHANGED <<cfg, files, inflight>>

NextScorer ==
    \/ CallParseDimensionScores
    \/ CallCalculateScore

SpecScorer == InitScorer /\ [][NextScorer]_vars

----------------------------------------------------------------------------
(* Spec: the tool handlers on the persisted project, one request at a time *)

\* dimension_scores arguments: all eight dimensions at one score, optionally
\* followed by one more pair; and the inputs of the tool's tests.
InputScores == {49, 50, 69, 70}

Uniform(v) == [i \in 1..Len(DimNames) |-> IntPair(DimNames[i], v)]

ExtraPairs ==
    {IntPair("target_users", 150), NanPair("security"), IntPair("performance", 90)}

ClarifyInputs ==
    {<<>>}
    \cup {Uniform(v) : v \in InputScores}
    \cup {Uniform(v) \o <<p>> : v \in InputScores, p \in ExtraPairs}
    \cup {<<IntPair("target_users", 80), IntPair("core_functionality", 90),
            IntPair("data_model", 60), IntPair("integrations", 50),
            IntPair("edge_cases", 55), IntPair("security", 70),
            IntPair("scale_performance", 60), IntPair("scope_boundaries", 85)>>,
          <<IntPair("target_users", 30), IntPair("core_functionality", 40),
            IntPair("data_model", 20)>>,
          <<IntPair("target_users", 150), IntPair("core_functionality", -10), NoColonPair>>}

\* The arguments of a sdd_clarify call: without answers dimension_scores is not read.
ClarifyCalls ==
    {[NoInput EXCEPT !.scores = s] : s \in {<<>>, Uniform(70)}}
    \cup {[NoInput EXCEPT !.answers = TRUE, !.scores = s] : s \in ClarifyInputs}

Init ==
    /\ clock = 2
    /\ files = NoFiles
    /\ \E mode \in {ModeGuided, ModeExpert} : cfg = NewProjectConfig(mode, 1)
    /\ last = [op |-> "none", arg |-> "", err |-> "ok", resp |-> "", input |-> NoInput,
               steps |-> <<>>, score |-> 0, now |-> clock, pre |-> cfg, preFiles |-> files]
    /\ inflight = NoRequests

\* A call that changes the persisted state is within the budget of the model.
Budget(out) == out.wrote => clock - 2 < MaxToolCalls

\* The persisted state and the record of the call, for a handler's outcome.
Handled(op, input, out) ==
    /\ cfg' = out.cfg
    /\ files' = out.files
    /\ clock' = IF out.wrote THEN clock + 1 ELSE clock
    /\ last' = [op |-> op, arg |-> "", err |-> out.err, resp |-> out.resp,
                input |-> input, steps |-> out.steps, score |-> out.score,
                now |-> clock, pre |-> cfg, preFiles |-> files]
    /\ UNCHANGED inflight

Propose ==
    \E valid \in BOOLEAN :
        LET out == ProposeHandle(cfg, files, clock, valid)
        IN /\ Budget(out)
           /\ Handled(StagePropose, [NoInput EXCEPT !.valid = valid], out)

Specify ==
    \E valid \in BOOLEAN :
        LET out == SpecifyHandle(cfg, files, clock, valid)
        IN /\ Budget(out)
           /\ Handled(StageSpecify, [NoInput EXCEPT !.valid = valid], out)

Clarify ==
    \E input \in ClarifyCalls :
        LET out == ClarifyHandle(cfg, files, clock, input.answers, input.scores)
        IN /\ Budget(out)
           /\ Handled(StageClarify, input, out)

Design ==
    \E valid \in BOOLEAN :
        LET out == DesignHandle(cfg, files, clock, valid)
        IN /\ Budget(out)
           /\ Handled(StageDesign, [NoInput EXCEPT !.valid = valid], out)

Tasks ==
    \E valid \in BOOLEAN :
        LET out == TasksHandle(cfg, files, clock, valid)
        IN /\ Budget(out)
           /\ Handled(StageTasks, [NoInput EXCEPT !.valid = valid], out)

Validate ==
    \E valid \in BOOLEAN :
        LET out == ValidateHandle(cfg, files, clock, valid)
        IN /\ Budget(out)
           /\ Handled(StageValidate, [NoInput EXCEPT !.valid = valid], out)

Context ==
    \E stageFilter \in AnyStages \cup {""} :
        LET out == ContextHandle(cfg, files, stageFilter)
        IN /\ Budget(out)
           /\ Handled("context", [NoInput EXCEPT !.filter = stageFilter], out)

Next ==
    \/ Propose
    \/ Specify
    \/ Clarify
    \/ Design
    \/ Tasks
    \/ Validate
    \/ Context

Spec == Init /\ [][Next]_vars

----------------------------------------------------------------------------
(* SpecArtifacts: the tool handlers on a project whose artifact files the   *)
(* user may remove or empty between two calls                               *)

\* The project after its first n stage tools have succeeded, one after the
\* other: proposal, requirements, a passing clarification round, design, tasks.
RECURSIVE Walked(_, _)
Walked(mode, n) ==
    IF n = 0
    THEN Out(NewProjectConfig(mode, 1), NoFiles, "ok", "", <<>>, 0, TRUE)
    ELSE LET prev == Walked(mode, n - 1) IN
         CASE n = 1 -> ProposeHandle(prev.cfg, prev.files, n + 1, TRUE)
           [] n = 2 -> SpecifyHandle(prev.cfg, prev.files, n + 1, TRUE)
           [] n = 3 -> ClarifyHandle(prev.cfg, prev.files, n + 1, TRUE, Uniform(70))
           [] n = 4 -> DesignHandle(prev.cfg, prev.files, n + 1, TRUE)
           [] n = 5 -> TasksHandle(prev.cfg, prev.files, n + 1, TRUE)

InitArtifacts ==
    /\ clock = 8
    /\ \E mode \in {ModeGuided, ModeExpert}, n \in 0..5 :
          /\ cfg = Walked(mode, n).cfg
          /\ files = Walked(mode, n).files
    /\ last = [op |-> "none", arg |-> "", err |-> "ok", resp |-> "", input |-> NoInput,
               steps |-> <<>>, score |-> 0, now |-> clock, pre |-> cfg, preFiles |-> files]
    /\ inflight = NoRequests

ArtifactsBudget(out) == out.wrote => clock - 8 < MaxArtifactCalls

\* The user removes or empties the artifact file of a stage.
RemoveArtifact ==
    \E stage \in ArtifactStages :
        /\ files[stage] > 0
        /\ files' = [files EXCEPT ![stage] = 0]
        /\ last' = Call("remove", stage, "ok", NoInput, <<>>, 0)
        /\ UNCHANGED <<cfg, clock, inflight>>

ArtifactsPropose ==
    LET out == ProposeHandle(cfg, files, clock, TRUE)
    IN /\ ArtifactsBudget(out)
       /\ Handled(StagePropose, NoInput, out)

ArtifactsSpecify ==
    LET out == SpecifyHandle(cfg, files, clock, TRUE)
    IN /\ ArtifactsBudget(out)
       /\ Handled(StageSpecify, NoInput, out)

ArtifactsClarify ==
    \E input \in {NoInput, [NoInput EXCEPT !.answers = TRUE, !.scores = Uniform(70)],
                   [NoInput EXCEPT !.answers = TRUE, !.scores = Uniform(49)]} :
        LET out == ClarifyHandle(cfg, files, clock, input.answers, input.scores)
        IN /\ ArtifactsBudget(out)
           /\ Handled(StageClarify, input, out)

ArtifactsDesign ==
    LET out == DesignHandle(cfg, files, clock, TRUE)
    IN /\ ArtifactsBudget(out)
       /\ Handled(StageDesign, NoInput, out)

ArtifactsTasks ==
    LET out == TasksHandle(cfg, files, clock, TRUE)
    IN /\ ArtifactsBudget(out)
       /\ Handled(StageTasks, NoInput, out)

ArtifactsValidate ==
    LET out == ValidateHandle(cfg, files, clock, TRUE)
    IN /\ ArtifactsBudget(out)
       /\ Handled(StageValidate, NoInput, out)

NextArtifacts ==
    \/ RemoveArtifact
    \/ ArtifactsPropose
    \/ ArtifactsSpecify
    \/ ArtifactsClarify
    \/ ArtifactsDesign
    \/ ArtifactsTasks
    \/ ArtifactsValidate

SpecArtifacts == InitArtifacts /\ [][NextArtifacts]_vars

----------------------------------------------------------------------------
(* SpecConcurrent: two handlers serving requests on the same project at the *)
(* same time.  A handler loads sdd.json first (FileStore.Load) and does the *)
(* rest of its work, FileStore.Save included, in a later step; FileStore    *)
(* takes no lock, so the steps of the two handlers interleave freely.       *)

ToolRequests ==
    {[op |-> op, input |-> NoInput] :
        op \in {StagePropose, StageSpecify, StageDesign, StageTasks, StageValidate}}
    \cup {[op |-> StageClarify, input |-> i] :
            i \in {NoInput, [NoInput EXCEPT !.answers = TRUE, !.scores = Uniform(70)],
                    [NoInput EXCEPT !.answers = TRUE, !.scores = Uniform(49)]}}

\* The handler the server registered for a tool, on the ProjectConfig c it loaded.
HandleTool(op, c, f, now, input) ==
    CASE op = StagePropose -> ProposeHandle(c, f, now, input.valid)
      [] op = StageSpecify -> SpecifyHandle(c, f, now, input.valid)
      [] op = StageClarify -> ClarifyHandle(c, f, now, input.answers, input.scores)
      [] op = StageDesign -> DesignHandle(c, f, now, input.valid)
      [] op = StageTasks -> TasksHandle(c, f, now, input.valid)
      [] op = StageValidate -> ValidateHandle(c, f, now, input.valid)

InitConcurrent ==
    /\ clock = 8
    /\ \E mode \in {ModeGuided, ModeExpert}, n \in 0..5 :
          /\ cfg = Walked(mode, n).cfg
          /\ files = Walked(mode, n).files
    /\ last = [op |-> "none", arg |-> "", err |-> "ok", resp |-> "", input |-> NoInput,
               steps |-> <<>>, score |-> 0, now |-> clock, pre |-> cfg, preFiles |-> files]
    /\ inflight = NoRequests

\* A handler receives a request and reads sdd.json.
ConcurrentLoad ==
    \E h \in Handlers, req \in ToolRequests :
        /\ inflight[h].pc = "idle"
        /\ clock - 8 < MaxConcurrentCalls
        /\ inflight' = [inflight EXCEPT
                           ![h] = [pc |-> "loaded", op |-> req.op, input |-> req.input,
                                   cfg |-> cfg]]
        /\ UNCHANGED <<cfg, files, clock, last>>

\* A Save that never moves the persisted stage backward: when the persisted
\* project is further ahead than the handler's copy it keeps the persisted
\* current_stage and stage statuses and takes the rest from the copy.
ConcurrentFinish_KeepAhead ==
    \E h \in Handlers :
        /\ inflight[h].pc = "loaded"
        /\ LET req == inflight[h]
               out == HandleTool(req.op, req.cfg, files, clock, req.input)
               saved == IF StageIndex(out.cfg.current_stage) < StageIndex(cfg.current_stage)
                        THEN [out.cfg EXCEPT !.current_stage = cfg.current_stage,
                                             !.stage_status = cfg.stage_status]
                        ELSE out.cfg
           IN /\ cfg' = IF (\E i \in 1..Len(out.steps) : out.steps[i] = "Save")
                        THEN saved ELSE cfg
              /\ files' = out.files
              /\ clock' = IF out.wrote THEN clock + 1 ELSE clock
              /\ last' = [op |-> req.op, arg |-> "", err |-> out.err, resp |-> out.resp,
                          input |-> req.input, steps |-> out.steps, score |-> out.score,
                          now |-> clock, pre |-> cfg, preFiles |-> files]
        /\ inflight' = [inflight EXCEPT ![h] = [pc |-> "idle"]]

\* The handler does the rest of its work on the ProjectConfig it loaded; only
\* a handler that reaches FileStore.Save replaces the persisted ProjectConfig.
ConcurrentFinish ==
    \E h \in Handlers :
        /\ inflight[h].pc = "loaded"
        /\ LET req == inflight[h]
               out == HandleTool(req.op, req.cfg, files, clock, req.input)
           IN /\ cfg' = IF (\E i \in 1..Len(out.steps) : out.steps[i] = "Save") THEN out.cfg ELSE cfg
              /\ files' = out.files
              /\ clock' = IF out.wrote THEN clock + 1 ELSE clock
              /\ last' = [op |-> req.op, arg |-> "", err |-> out.err, resp |-> out.resp,
                          input |-> req.input, steps |-> out.steps, score |-> out.score,
                          now |-> clock, pre |-> cfg, preFiles |-> files]
        /\ inflight' = [inflight EXCEPT ![h] = [pc |-> "idle"]]

NextConcurrent ==
    \/ ConcurrentLoad
    \/ ConcurrentFinish

SpecConcurrent == InitConcurrent /\ [][NextConcurrent]_vars

----------------------------------------------------------------------------
(* SpecProgress: a caller that keeps invoking the tool of the current stage *)
(* with valid input, one request at a time.  At clarify it may first ask    *)
(* for the questions or answer rounds that score below the threshold, but   *)
(* it keeps coming back with a round that passes.  A request is received    *)
(* (the handler loads sdd.json) in one step and served in the next.         *)

InitProgress ==
    /\ clock = 2
    /\ files = NoFiles
    /\ \E mode \in {ModeGuided, ModeExpert} : cfg = NewProjectConfig(mode, 1)
    /\ last = [op |-> "none", arg |-> "", err |-> "ok", resp |-> "", input |-> NoInput,
               steps |-> <<>>, score |-> 0, now |-> clock, pre |-> cfg, preFiles |-> files]
    /\ inflight = NoRequests

\* Answered rounds whose score is v on every dimension, for the v that pass
\* (or do not pass) the gate of ProjectConfig c.
RoundsScoring(c, passing) ==
    {[NoInput EXCEPT !.answers = TRUE, !.scores = Uniform(v)] :
        v \in {w \in InputScores : (w >= ClarityThreshold(c.mode)) = passing}}

\* The request reaches its handler, which loads sdd.json.
Requested(op, input) ==
    /\ \A h \in Handlers : inflight[h].pc = "idle"
    /\ inflight' = [inflight EXCEPT
                       ![1] = [pc |-> "loaded", op |-> op, input |-> input, cfg |-> cfg]]
    /\ UNCHANGED <<cfg, files, clock, last>>

\* The caller invokes the tool of the current stage, with valid input and, at
\* clarify, a round that passes.  Only the validations are counted against the
\* bound, which leaves room for the first of them after any number of retries.
ProgressCall ==
    /\ cfg.current_stage \in ArtifactStages
    /\ cfg.current_stage = StageValidate => clock - 2 < MaxProgressCalls + 6
    /\ \E input \in (IF cfg.current_stage = StageClarify
                      THEN RoundsScoring(cfg, TRUE) ELSE {NoInput}) :
          Requested(cfg.current_stage, input)

\* At clarify: the caller asks for the questions, or answers a round that does
\* not pass.
ProgressRetry ==
    /\ cfg.current_stage = StageClarify
    /\ clock - 2 < MaxProgressCalls
    /\ \E input \in RoundsScoring(cfg, FALSE) \cup {NoInput} :
          Requested(StageClarify, input)

NextProgress ==
    \/ ProgressCall
    \/ ProgressRetry
    \/ ConcurrentFinish

\* The request in progress is served: its handler returns.  These are the
\* ConcurrentFinish steps, and a handler can always run to its end.
ProgressReturns ==
    /\ \E h \in Handlers : inflight[h].pc = "loaded"
    /\ inflight' = NoRequests

\* The caller keeps invoking the tool of the current stage, and every handler
\* returns.
SpecProgress ==
    InitProgress /\ [][NextProgress]_vars
        /\ WF_vars(ProgressCall) /\ WF_inflight(ProgressReturns)

----------------------------------------------------------------------------
(* Claims about the pipeline API, checked under SpecPipeline *)

\* C1: at stage clarify, CanAdvance and Advance are refused with the clarity-gate
\* error exactly when clarity_score < threshold(mode), with threshold 70 in guided
\* and 50 in expert mode; a score equal to the threshold is accepted.
C1_ClarityGate ==
    (/\ last.op \in {"CanAdvance", "Advance"}
     /\ last.pre.current_stage = "clarify"
     /\ last.pre.mode \in {"guided", "expert"})
    => /\ (last.err = "clarity_gate") <=>
              (last.pre.clarity_score < (IF last.pre.mode = "expert" THEN 50 ELSE 70))
       /\ (last.pre.mode = "expert" /\ last.pre.clarity_score \in 50..69) => last.err = "ok"
       /\ (last.pre.mode = "guided" /\ last.pre.clarity_score \in 50..69)
              => last.err = "clarity_gate"

\* An Advance in expert mode with the score exactly at the threshold went through.
C1_Witness ==
    /\ last.op = "Advance"
    /\ last.pre.current_stage = "clarify"
    /\ last.pre.mode = "expert"
    /\ last.pre.clarity_score = 50
    /\ last.err = "ok"
    /\ cfg.current_stage = "design"

\* The fixed order, as pairs (stage, immediate successor).
SuccessorPairs ==
    {<<"init", "propose">>, <<"propose", "specify">>, <<"specify", "clarify">>,
     <<"clarify", "design">>, <<"design", "tasks">>, <<"tasks", "validate">>}

\* C3: current_stage changes only on a successful Advance, and then to the
\* immediate successor in the fixed order; Advance at validate returns the
\* already-at-final-stage error and leaves the state unchanged.
C3_StageOrder ==
    [][/\ cfg'.current_stage # cfg.current_stage
            => /\ last'.op = "Advance"
               /\ last'.err = "ok"
               /\ <<cfg.current_stage, cfg'.current_stage>> \in SuccessorPairs
       /\ (last'.op = "Advance" /\ last'.err = "ok")
            => <<cfg.current_stage, cfg'.current_stage>> \in SuccessorPairs
       /\ (last'.op = "Advance" /\ cfg.current_stage = "validate")
            => (last'.err = "final_stage" /\ cfg' = cfg)]_vars

\* A successful Advance moved the pipeline from tasks to validate.
C3_Witness ==
    /\ last.op = "Advance"
    /\ last.err = "ok"
    /\ last.pre.current_stage = "tasks"
    /\ cfg.current_stage = "validate"

\* C4: a successful Advance from S to its successor T leaves S completed with
\* completed_at = now and started_at unchanged, current_stage = T, and T in
\* progress with iterations one higher and started_at = now only if it was unset;
\* from clarify it ends at design with clarify completed.
C4_AdvanceResult ==
    (last.op = "Advance" /\ last.err = "ok") =>
        LET S == last.pre.current_stage
            T == cfg.current_stage
        IN /\ <<S, T>> \in SuccessorPairs
           /\ cfg.stage_status[S].status = "completed"
           /\ cfg.stage_status[S].completed_at = last.now
           /\ cfg.stage_status[S].started_at = last.pre.stage_status[S].started_at
           /\ cfg.stage_status[T].status = "in_progress"
           /\ cfg.stage_status[T].iterations = last.pre.stage_status[T].iterations + 1
           /\ cfg.stage_status[T].started_at =
                 (IF last.pre.stage_status[T].started_at = 0
                  THEN last.now ELSE last.pre.stage_status[T].started_at)
           /\ S = "clarify" =>
                 (T = "design" /\ cfg.stage_status["clarify"].status = "completed")

\* A successful Advance entered a stage that had been started earlier and kept
\* its started_at.
C4_Witness ==
    /\ last.op = "Advance"
    /\ last.err = "ok"
    /\ last.pre.stage_status[cfg.current_stage].started_at # 0
    /\ last.pre.stage_status[cfg.current_stage].started_at < last.now
    /\ cfg.stage_status[cfg.current_stage].started_at =
          last.pre.stage_status[cfg.current_stage].started_at
    /\ cfg.stage_status[last.pre.current_stage].completed_at = last.now

\* C5: when Advance returns an error the whole ProjectConfig is as before the call.
C5_AdvanceErrorNoMutation ==
    (last.op = "Advance" /\ last.err # "ok") =>
        /\ last.err \in {"clarity_gate", "final_stage", "unknown_stage"}
        /\ cfg = last.pre

\* Advance was refused at the clarity gate.
C5_Witness ==
    /\ last.op = "Advance"
    /\ last.err = "clarity_gate"
    /\ cfg = last.pre

\* C6: CanAdvance gives exactly one outcome: clarity-gate-not-met at clarify with
\* the score below the threshold, unknown-stage for a stage outside the seven,
\* already-at-final-stage at validate, success otherwise.
C6_CanAdvanceOutcome ==
    last.op = "CanAdvance" =>
        LET s == last.pre.current_stage
            below == last.pre.clarity_score < (IF last.pre.mode = "expert" THEN 50 ELSE 70)
        IN last.err =
              (IF s = "clarify" /\ below THEN "clarity_gate"
               ELSE IF s \notin {"init", "propose", "specify", "clarify",
                                 "design", "tasks", "validate"} THEN "unknown_stage"
               ELSE IF s = "validate" THEN "final_stage"
               ELSE "ok")

\* CanAdvance reported the final stage as an error of its own.
C6_Witness ==
    /\ last.op = "CanAdvance"
    /\ last.pre.current_stage = "validate"
    /\ last.err = "final_stage"

\* C7: RequireStage returns the wrong-stage error exactly when current_stage
\* differs from the expected stage, whatever the score, mode or stage statuses.
C7_RequireStage ==
    last.op = "RequireStage" =>
        ((last.err = "wrong_stage") <=> (last.pre.current_stage # last.arg))

\* RequireStage accepted the clarify stage while the clarity gate was not met.
C7_Witness ==
    /\ last.op = "RequireStage"
    /\ last.arg = "clarify"
    /\ last.pre.current_stage = "clarify"
    /\ last.pre.mode = "guided"
    /\ last.pre.clarity_score = 49
    /\ last.err = "ok"

----------------------------------------------------------------------------
(* Claims about the tool handlers, checked under Spec *)

\* C2: whenever the persisted current_stage is design, tasks or validate, the
\* persisted clarity_score is at least the threshold of the project's mode.
C2_GateBeforeDesign ==
    cfg.current_stage \in {"design", "tasks", "validate"}
        => cfg.clarity_score >= (IF cfg.mode = "expert" THEN 50 ELSE 70)

\* An expert project is past clarify with a score a guided project would not pass with.
C2_Witness ==
    /\ cfg.current_stage = "tasks"
    /\ cfg.mode = "expert"
    /\ cfg.clarity_score \in 50..69

\* C8 as stated: a stage tool called at another stage than its own returns the
\* wrong-pipeline-stage error, writes no artifact and leaves sdd.json as it was.
C8_Original ==
    (last.op \in ArtifactStages /\ last.pre.current_stage # last.op)
        => /\ last.err = "wrong_stage"
           /\ cfg = last.pre
           /\ files = last.preFiles

\* C8: a stage tool called at another stage than its own returns an error, writes
\* no artifact and leaves sdd.json as it was; the error is the wrong-pipeline-stage
\* error when the call's required arguments are present and valid, and the
\* argument error, raised before the stage is looked at, when they are not.
C8_WrongStageNoEffect ==
    (last.op \in ArtifactStages /\ last.pre.current_stage # last.op)
        => /\ last.err = (IF last.input.valid THEN "wrong_stage" ELSE "missing_field")
           /\ cfg = last.pre
           /\ files = last.preFiles

\* sdd_create_design with valid arguments was refused at stage clarify.
C8_Witness ==
    /\ last.op = "design"
    /\ last.input.valid
    /\ last.pre.current_stage = "clarify"
    /\ last.err = "wrong_stage"
    /\ cfg = last.pre
    /\ files = last.preFiles

\* C9: a sdd_clarify call with answers at stage clarify persists the score of
\* that round, moves the persisted stage to design exactly when the score is at
\* least the threshold of the mode, and otherwise stays at clarify and answers
\* that more clarification is needed.
C9_ClarifyRound ==
    (last.op = "clarify" /\ last.input.answers /\ last.pre.current_stage = "clarify")
        => LET threshold == IF cfg.mode = "expert" THEN 50 ELSE 70 IN
           /\ last.err = "ok"
           /\ cfg.clarity_score = last.score
           /\ \A v \in InputScores : last.input.scores = Uniform(v) => last.score = v
           /\ cfg.current_stage = (IF last.score >= threshold THEN "design" ELSE "clarify")
           /\ last.score < threshold => last.resp = "more_needed"
           /\ last.score >= threshold => last.resp = "gate_passed"
           /\ (last.input.scores = <<IntPair("target_users", 30),
                                     IntPair("core_functionality", 40),
                                     IntPair("data_model", 20)>>)
                 => cfg.current_stage = "clarify"

\* A guided project scored 69 in an answered round and stayed at clarify.
C9_Witness ==
    /\ last.op = "clarify"
    /\ last.input.answers
    /\ last.pre.current_stage = "clarify"
    /\ cfg.mode = "guided"
    /\ last.score = 69
    /\ cfg.clarity_score = 69
    /\ last.pre.clarity_score # 69
    /\ cfg.current_stage = "clarify"
    /\ last.resp = "more_needed"

\* The calls of a handler that the caller contract orders.
ContractSteps(steps) ==
    SelectSeq(steps, LAMBDA x :
        x \in {"RequireStage", "MarkInProgress", "Write", "Advance", "Save"})

\* No artifact write and no Save before RequireStage was called and passed.
GuardedWrites ==
    \A i \in DOMAIN last.steps :
        last.steps[i] \in {"Write", "Save"}
            => /\ \E j \in 1..(i - 1) : last.steps[j] = "RequireStage"
               /\ last.pre.current_stage = last.op

\* C10 as stated: every successful call of a stage tool does RequireStage,
\* MarkInProgress, the artifact write, Advance and one Save, in this order.
C10_Original ==
    (last.op \in ArtifactStages /\ last.err = "ok")
        => /\ ContractSteps(last.steps) \in
                {<<"RequireStage", "MarkInProgress", "Write", "Advance", "Save">>,
                 <<"RequireStage", "MarkInProgress", "Write", "Write", "Advance", "Save">>}
           /\ GuardedWrites

\* C10: every successful call of a stage tool does RequireStage, then
\* MarkInProgress, then its artifact writes, then one Save, and nothing is
\* written or saved before RequireStage has passed.  Advance is called, between
\* the writes and the Save, by propose, specify, design and tasks, and by
\* clarify when it is called with answers whose score reaches the threshold.
\* Clarify without answers writes no artifact and does not call Advance, clarify
\* with a score below the threshold does not call Advance, and validate never
\* calls Advance.
C10_HandlerOrder ==
    last.op \in ArtifactStages
        => /\ GuardedWrites
           /\ last.err = "ok" =>
                ContractSteps(last.steps) =
                    (IF last.op \in {"propose", "specify", "design", "tasks"}
                     THEN <<"RequireStage", "MarkInProgress", "Write", "Advance", "Save">>
                     ELSE IF last.op = "validate"
                     THEN <<"RequireStage", "MarkInProgress", "Write", "Save">>
                     ELSE IF ~last.input.answers
                     THEN <<"RequireStage", "MarkInProgress", "Save">>
                     ELSE IF last.score >= (IF last.pre.mode = "expert" THEN 50 ELSE 70)
                     THEN <<"RequireStage", "MarkInProgress", "Write", "Write",
                            "Advance", "Save">>
                     ELSE <<"RequireStage", "MarkInProgress", "Write", "Write", "Save">>)
           /\ (last.err = "ok" /\ last.op \in {"propose", "specify", "design", "tasks"})
                => /\ cfg.current_stage # last.pre.current_stage
                   /\ cfg.updated_at = last.now

\* sdd_create_tasks succeeded and moved the persisted stage to validate.
C10_Witness ==
    /\ last.op = "tasks"
    /\ last.err = "ok"
    /\ ContractSteps(last.steps) =
          <<"RequireStage", "MarkInProgress", "Write", "Advance", "Save">>
    /\ cfg.current_stage = "validate"
    /\ files["tasks"] = 1

----------------------------------------------------------------------------
(* The clarify tool and the clarity gate, checked under Spec *)

\* The positions of a call in the steps of the last handler.
StepsAt(step) == {i \in DOMAIN last.steps : last.steps[i] = step}

\* C11: a sdd_clarify call that processes answers stores the new clarity_score
\* before it calls Advance, calls Advance exactly when that score is at least
\* the threshold of the mode, and an Advance it calls never fails with the
\* clarity-gate error: it succeeds and the score it left in sdd.json passes the gate.
C11_StoreBeforeAdvance ==
    (last.op = "clarify" /\ last.input.answers /\ StepsAt("MarkInProgress") # {})
        => LET threshold == IF last.pre.mode = "expert" THEN 50 ELSE 70 IN
           /\ StepsAt("StoreScore") # {}
           /\ \A i \in StepsAt("StoreScore"), j \in StepsAt("Advance") : i < j
           /\ (StepsAt("Advance") # {}) <=> (last.score >= threshold)
           /\ last.err # "clarity_gate"
           /\ StepsAt("Advance") # {}
                 => /\ last.err = "ok"
                    /\ cfg.clarity_score = last.score
                    /\ cfg.clarity_score >= threshold
                    /\ cfg.current_stage = "design"

\* A guided project whose persisted score was below 70 answered a round that
\* scored at least 70, and the Advance of that call went through.
C11_Witness ==
    /\ last.op = "clarify"
    /\ last.input.answers
    /\ last.pre.mode = "guided"
    /\ last.pre.clarity_score < 70
    /\ last.score >= 70
    /\ StepsAt("Advance") # {}
    /\ last.err = "ok"
    /\ cfg.current_stage = "design"

----------------------------------------------------------------------------
(* Claims about the stage statuses, checked under SpecPipeline *)

\* The StageStatus a ProjectConfig holds for a stage: the zero value without an entry.
StatusOf(c, s) ==
    IF s \in DOMAIN c.stage_status
    THEN c.stage_status[s]
    ELSE [status |-> "", started_at |-> 0, completed_at |-> 0, iterations |-> 0]

\* C12: a started_at that is set is never cleared or overwritten: across every
\* call (Advance, MarkInProgress, re-marking a stage, completing it) every stage
\* whose started_at was set still has the same started_at.
C12_StartedAtKept ==
    [][\A s \in DOMAIN cfg.stage_status :
          cfg.stage_status[s].started_at # 0
             => /\ s \in DOMAIN cfg'.stage_status
                /\ cfg'.stage_status[s].started_at = cfg.stage_status[s].started_at]_vars

\* A stage was started by the first call, marked in progress again by the
\* second and completed by the third; it still has the started_at of the first.
C12_Witness ==
    /\ last.op = "Advance"
    /\ last.err = "ok"
    /\ last.now = 4
    /\ cfg.stage_status[last.pre.current_stage].status = "completed"
    /\ cfg.stage_status[last.pre.current_stage].completed_at = 4
    /\ cfg.stage_status[last.pre.current_stage].started_at = 2
    /\ cfg.stage_status[last.pre.current_stage].iterations = 2

\* C13: iterations is never negative, and across a call the iterations of a
\* stage grows by exactly 1 if the call marked that stage in progress
\* (MarkInProgress on the current stage, or a successful Advance entering it)
\* and is unchanged otherwise.
C13_Iterations ==
    /\ [](\A s \in DOMAIN cfg.stage_status : cfg.stage_status[s].iterations >= 0)
    /\ [][\A s \in (DOMAIN cfg.stage_status) \cup (DOMAIN cfg'.stage_status) :
             StatusOf(cfg', s).iterations =
                (IF \/ (last'.op = "MarkInProgress" /\ s = cfg.current_stage)
                    \/ (last'.op = "Advance" /\ last'.err = "ok" /\ s = cfg'.current_stage)
                 THEN StatusOf(cfg, s).iterations + 1
                 ELSE StatusOf(cfg, s).iterations)]_vars

\* The current stage was marked in progress three times and counts three more
\* iterations than before; no other stage counts more.
C13_Witness ==
    /\ last.op = "MarkInProgress"
    /\ last.now = 4
    /\ cfg.current_stage = "clarify"
    /\ cfg.stage_status["clarify"].iterations = 4
    /\ \A s \in DOMAIN cfg.stage_status \ {"clarify"} : cfg.stage_status[s].iterations = 1

\* C14 as stated: a second MarkInProgress in a row leaves the ProjectConfig that
\* the first one left.
C14_Original ==
    [][(last.op = "MarkInProgress" /\ last'.op = "MarkInProgress") => cfg' = cfg]_vars

\* C14: a second MarkInProgress in a row leaves the ProjectConfig that the first
\* one left except for the iterations of the current stage, which is one higher:
\* current_stage, the status in_progress, started_at, completed_at, every other
\* stage, the mode and the score are the same.
C14_SecondMarkInProgress ==
    [][(last.op = "MarkInProgress" /\ last'.op = "MarkInProgress")
          => /\ cfg.current_stage \in DOMAIN cfg.stage_status
             /\ cfg.stage_status[cfg.current_stage].status = "in_progress"
             /\ cfg' = [cfg EXCEPT !.stage_status[cfg.current_stage].iterations = @ + 1]]_vars

\* Two MarkInProgress calls in a row on a stage that was pending: started by the
\* first, and counted twice.
C14_Witness ==
    /\ last.op = "MarkInProgress"
    /\ last.now = 3
    /\ last.pre.stage_status[cfg.current_stage] =
          [status |-> "in_progress", started_at |-> 2, completed_at |-> 0, iterations |-> 1]
    /\ cfg.stage_status[cfg.current_stage] =
          [status |-> "in_progress", started_at |-> 2, completed_at |-> 0, iterations |-> 2]
    /\ \A s \in DOMAIN cfg.stage_status \ {cfg.current_stage} :
          cfg.stage_status[s].status = "pending"

----------------------------------------------------------------------------
(* Claims about a project from its creation on, checked under SpecLifecycle *)

\* The position of a stage in the fixed order.
OrdinalOf(s) ==
    CASE s = "init" -> 0 [] s = "propose" -> 1 [] s = "specify" -> 2
      [] s = "clarify" -> 3 [] s = "design" -> 4 [] s = "tasks" -> 5
      [] s = "validate" -> 6

\* C15: in every state reached from NewProjectConfig by Advance and
\* MarkInProgress calls the stage-status map has an entry for each of the seven
\* stages and for nothing else, and every stage after the current one is pending
\* (never started, never completed, no iteration).
C15_SevenStatuses ==
    /\ DOMAIN cfg.stage_status =
          {"init", "propose", "specify", "clarify", "design", "tasks", "validate"}
    /\ \A s \in DOMAIN cfg.stage_status :
          OrdinalOf(s) > OrdinalOf(cfg.current_stage)
             => cfg.stage_status[s] = [status |-> "pending", started_at |-> 0,
                                       completed_at |-> 0, iterations |-> 0]

\* The pipeline was advanced into design: seven entries, design in progress,
\* tasks and validate still pending.
C15_Witness ==
    /\ last.op = "Advance"
    /\ last.err = "ok"
    /\ cfg.current_stage = "design"
    /\ Cardinality(DOMAIN cfg.stage_status) = 7
    /\ cfg.stage_status["design"].status = "in_progress"
    /\ cfg.stage_status["tasks"].status = "pending"
    /\ cfg.stage_status["validate"].status = "pending"

----------------------------------------------------------------------------
(* Claims about the mode, checked under Spec *)

\* C16: the mode of a project never changes: no tool handler, and none of the
\* pipeline operations the handlers call (RequireStage, MarkInProgress, Advance
\* and its CanAdvance), changes the mode in sdd.json, so the threshold that
\* applies to the project is the same before and after every call.
C16_ModeImmutable ==
    [][/\ cfg'.mode = cfg.mode
       /\ last'.pre.mode = cfg.mode
       /\ (IF cfg'.mode = "expert" THEN 50 ELSE 70) = (IF cfg.mode = "expert" THEN 50 ELSE 70)]_vars

\* An expert project went through every stage tool and is still an expert project.
C16_Witness ==
    /\ last.op = "validate"
    /\ last.err = "ok"
    /\ last.pre.mode = "expert"
    /\ cfg.mode = "expert"
    /\ cfg.stage_status["validate"].status = "completed"

----------------------------------------------------------------------------
(* Claims about the score of a round, checked under SpecScorer *)

\* The positions of the pairs of the last dimension_scores that name a dimension.
PairsNaming(name) ==
    {k \in DOMAIN last.input.scores :
        last.input.scores[k].colon /\ last.input.scores[k].name = name}

\* The decimal form of an integer, for the integers small enough to matter.
DecimalOf(v) ==
    LET d == <<"0", "1", "2", "3", "4", "5", "6", "7", "8", "9">>
        a == IF v < 0 THEN 0 - v ELSE v
        digits == IF a < 10 THEN <<d[a + 1]>>
                  ELSE IF a < 100 THEN <<d[(a \div 10) + 1], d[(a % 10) + 1]>>
                  ELSE <<d[(a \div 100) + 1], d[((a \div 10) % 10) + 1], d[(a % 10) + 1]>>
    IN IF v < 0 THEN <<"-">> \o digits ELSE digits

\* C17: after parseDimensionScores on a fresh dimension set every score is in
\* 0..100; a dimension no pair names keeps score 0; a dimension whose pair gives
\* an integer has that integer, 100 if it is above 100 and 0 if it is negative;
\* "target_users:150,core_functionality:-10" gives 100 and 0 and leaves the
\* other six at 0.
C17_ScoresClamped ==
    last.op = "parseDimensionScores" =>
        /\ Len(last.resp) = 8
        /\ \A i \in DOMAIN last.resp :
              LET d == last.resp[i] IN
              /\ d.score \in 0..100
              /\ PairsNaming(d.name) = {} => d.score = 0
              /\ \A k \in PairsNaming(d.name), v \in (0 - 20)..160 :
                    (/\ \A j \in PairsNaming(d.name) : j <= k
                     /\ last.input.scores[k].text = DecimalOf(v))
                        => d.score = (IF v > 100 THEN 100 ELSE IF v < 0 THEN 0 ELSE v)
        /\ (/\ Len(last.input.scores) = 2
            /\ last.input.scores[1].name = "target_users"
            /\ last.input.scores[1].text = <<"1", "5", "0">>
            /\ last.input.scores[2].name = "core_functionality"
            /\ last.input.scores[2].text = <<"-", "1", "0">>)
              => /\ last.resp[1].name = "target_users" /\ last.resp[1].score = 100
                 /\ last.resp[2].name = "core_functionality" /\ last.resp[2].score = 0
                 /\ \A i \in 3..8 : last.resp[i].score = 0

\* "target_users:150,core_functionality:-10" was parsed: 100 and 0.
C17_Witness ==
    /\ last.op = "parseDimensionScores"
    /\ Len(last.input.scores) = 2
    /\ last.input.scores[1].name = "target_users"
    /\ last.input.scores[1].text = <<"1", "5", "0">>
    /\ last.input.scores[2].name = "core_functionality"
    /\ last.input.scores[2].text = <<"-", "1", "0">>
    /\ last.resp[1].score = 100
    /\ last.resp[2].score = 0

\* A score text is an integer: an optional sign and then digits only, possibly
\* after spaces.
IsIntegerText(text) ==
    \E a \in DOMAIN text :
        /\ \A i \in 1..(a - 1) : text[i] = " "
        /\ \/ text[a] \in {"0", "1", "2", "3", "4", "5", "6", "7", "8", "9"}
           \/ (text[a] \in {"+", "-"} /\ a < Len(text))
        /\ \A i \in (a + 1)..Len(text) :
              text[i] \in {"0", "1", "2", "3", "4", "5", "6", "7", "8", "9"}

\* C18: parseDimensionScores never fails, and a pair without a colon, a pair
\* whose score is not an integer, a pair that names none of the eight dimensions
\* and the empty input are ignored: a dimension that no pair names with an
\* integer score keeps score 0 and is not covered.
C18_MalformedIgnored ==
    last.op = "parseDimensionScores" =>
        /\ last.err = "ok"
        /\ Len(last.resp) = 8
        /\ \A i \in DOMAIN last.resp :
              (\A k \in PairsNaming(last.resp[i].name) :
                    ~IsIntegerText(last.input.scores[k].text))
                 => (last.resp[i].score = 0 /\ ~last.resp[i].covered)

\* C19: after parseDimensionScores on a fresh dimension set a dimension is
\* covered exactly when its score is above 30: not at 30, at 31, and not when it
\* was not scored.
C19_CoveredAbove30 ==
    last.op = "parseDimensionScores" =>
        /\ \A i \in DOMAIN last.resp : last.resp[i].covered <=> (last.resp[i].score > 30)
        /\ \A i \in DOMAIN last.resp :
              PairsNaming(last.resp[i].name) = {} => ~last.resp[i].covered
        /\ \A i \in DOMAIN last.resp :
              (/\ PairsNaming(last.resp[i].name) # {}
               /\ \A k \in PairsNaming(last.resp[i].name) :
                     last.input.scores[k].text = <<"3", "0">>)
                 => (last.resp[i].score = 30 /\ ~last.resp[i].covered)
        /\ \A i \in DOMAIN last.resp :
              (/\ PairsNaming(last.resp[i].name) # {}
               /\ \A k \in PairsNaming(last.resp[i].name) :
                     last.input.scores[k].text = <<"3", "1">>)
                 => (last.resp[i].score = 31 /\ last.resp[i].covered)

\* "target_users:30,core_functionality:31" was parsed: the first is not covered,
\* the second is.
C19_Witness ==
    /\ last.op = "parseDimensionScores"
    /\ Len(last.input.scores) = 2
    /\ last.input.scores[1].name = "target_users"
    /\ last.input.scores[1].text = <<"3", "0">>
    /\ last.input.scores[2].name = "core_functionality"
    /\ last.input.scores[2].text = <<"3", "1">>
    /\ ~last.resp[1].covered
    /\ last.resp[2].covered
    /\ ~last.resp[3].covered

\* C20: CalculateScore is total and bounded: on a dimension set with scores in
\* 0..100 it returns an integer in 0..100, and exactly 0 on the empty set and on
\* a set whose weights are all zero; the clarity_score that a clarification
\* round stores is the score of the parsed dimension set and is in 0..100.
C20_ScoreBounded ==
    /\ last.op = "CalculateScore" =>
          /\ \A i \in DOMAIN last.arg : last.arg[i].score \in 0..100
          /\ last.score \in 0..100
          /\ (\A i \in DOMAIN last.arg : last.arg[i].weight = 0) => last.score = 0
    /\ last.op = "parseDimensionScores" =>
          /\ cfg.clarity_score = last.score
          /\ cfg.clarity_score \in 0..100

\* CalculateScore was given two dimensions of weight 0 and score 100, and
\* returned 0.
C20_Witness ==
    /\ last.op = "CalculateScore"
    /\ Len(last.arg) = 2
    /\ \A i \in DOMAIN last.arg : last.arg[i].weight = 0 /\ last.arg[i].score = 100
    /\ last.score = 0

\* The sum of weight and of weight * score over the first n dimensions.
RECURSIVE SigmaWeight(_, _)
SigmaWeight(dims, n) == IF n = 0 THEN 0 ELSE SigmaWeight(dims, n - 1) + dims[n].weight

RECURSIVE SigmaProduct(_, _)
SigmaProduct(dims, n) ==
    IF n = 0 THEN 0 ELSE SigmaProduct(dims, n - 1) + dims[n].weight * dims[n].score

\* An integer is the quotient sum / total rounded to the nearest integer.
IsRounded(score, sum, total) ==
    /\ 2 * score * total <= 2 * sum + total
    /\ 2 * score * total >= 2 * sum - total

----------------------------------------------------------------------------
(* Claims about the handlers' effects, checked under Spec *)

\* C22: a successful sdd_validate marks the validate stage completed, with
\* completed_at set, and saves it without calling Advance: current_stage is
\* still validate, and an Advance on the saved state returns the
\* already-at-final-stage error and changes nothing.  Once validate is
\* completed the persisted stage stays validate.
C22_ValidateCompletes ==
    /\ (last.op = "validate" /\ last.err = "ok")
          => /\ last.pre.current_stage = "validate"
             /\ cfg.current_stage = "validate"
             /\ cfg.stage_status["validate"].status = "completed"
             /\ cfg.stage_status["validate"].completed_at = last.now
             /\ cfg.stage_status["validate"].completed_at # 0
             /\ cfg.updated_at = last.now
             /\ StepsAt("Advance") = {}
             /\ StepsAt("Save") # {}
             /\ files["validate"] = last.preFiles["validate"] + 1
             /\ Advance(cfg, clock).err = "final_stage"
             /\ Advance(cfg, clock).cfg = cfg
    /\ cfg.stage_status["validate"].completed_at # 0 => cfg.current_stage = "validate"

\* sdd_validate succeeded on a project whose validate stage was not completed.
C22_Witness ==
    /\ last.op = "validate"
    /\ last.err = "ok"
    /\ last.pre.stage_status["validate"].status = "in_progress"
    /\ last.pre.stage_status["validate"].completed_at = 0
    /\ cfg.stage_status["validate"].status = "completed"
    /\ cfg.current_stage = "validate"

----------------------------------------------------------------------------
(* Claims about missing artifacts, checked under SpecArtifacts *)

\* The earlier artifacts a stage tool requires.
RequiredArtifacts(op) ==
    CASE op = "propose" -> {}
      [] op = "specify" -> {"propose"}
      [] op = "clarify" -> {"specify"}
      [] op = "design" -> {"specify"}
      [] op = "tasks" -> {"design"}
      [] op = "validate" -> {"propose", "specify", "clarify", "design", "tasks"}

\* C23: a stage tool called at its own stage while an artifact it requires is
\* empty or missing returns an error result, leaves sdd.json as it was (the
\* stage is not marked in progress, no iteration is counted, current_stage does
\* not move) and writes no artifact.
C23_MissingArtifact ==
    (/\ last.op \in {"propose", "specify", "clarify", "design", "tasks", "validate"}
     /\ last.input.valid
     /\ last.pre.current_stage = last.op
     /\ \E s \in RequiredArtifacts(last.op) : last.preFiles[s] = 0)
        => /\ last.err = "missing_artifact"
           /\ cfg = last.pre
           /\ files = last.preFiles
           /\ StepsAt("MarkInProgress") = {}
           /\ StepsAt("Write") = {}
           /\ StepsAt("Save") = {}

\* sdd_validate was refused at stage validate because one of the five earlier
\* artifacts was gone, the other four being there.
C23_Witness ==
    /\ last.op = "validate"
    /\ last.pre.current_stage = "validate"
    /\ last.preFiles["design"] = 0
    /\ \A s \in {"propose", "specify", "clarify", "tasks"} : last.preFiles[s] > 0
    /\ last.err = "missing_artifact"
    /\ cfg = last.pre
    /\ files = last.preFiles

\* C24: when two handlers run at the same time on one project, a handler that
\* saves the ProjectConfig saves over the very state it loaded (no Save happened
\* between its Load and its Save), and the persisted current_stage never moves
\* backward in the stage order.
C24_Serialized ==
    [][\A h \in Handlers :
          (inflight[h].pc = "loaded" /\ inflight'[h].pc = "idle" /\ cfg' # cfg)
              => /\ inflight[h].cfg = cfg
                 /\ StageIndex(cfg'.current_stage) >= StageIndex(cfg.current_stage)]_vars


\* C25: sdd_get_context is read-only.  Whatever the stage filter (empty, a known
\* stage, an unknown name), the call does not mark, advance, write or save: the
\* persisted ProjectConfig and every artifact are the same after it as before.
C25_ContextReadOnly ==
    last.op = "context"
        => /\ cfg = last.pre
           /\ files = last.preFiles
           /\ clock = last.now
           /\ \A step \in {"MarkInProgress", "StoreScore", "Write", "Advance", "Save"} :
                  StepsAt(step) = {}
           /\ last.err = IF last.input.filter \in ArtifactStages \cup {""}
                          THEN "ok" ELSE "unknown_stage"

C25_Witness ==
    /\ last.op = "context"
    /\ last.input.filter = StageDesign
    /\ last.err = "ok"
    /\ cfg.current_stage = StageTasks
    /\ files[StageDesign] > 0

\* C26: in every state reached from NewProjectConfig by Advance and
\* MarkInProgress calls, current_stage is one of the seven stages, and neither
\* CanAdvance nor Advance returns the unknown-stage error, on the call just made
\* or on the next one.
C26_KnownStage ==
    /\ cfg.current_stage \in
          {"init", "propose", "specify", "clarify", "design", "tasks", "validate"}
    /\ StageIndex(cfg.current_stage) \in 0..6
    /\ CanAdvance(cfg) # "unknown_stage"
    /\ Advance(cfg, clock).err # "unknown_stage"
    /\ last.err # "unknown_stage"

\* Advance was refused at the last stage: the final-stage error, not the
\* unknown-stage one.
C26_Witness ==
    /\ last.op = "Advance"
    /\ last.err = "final_stage"
    /\ cfg.current_stage = "validate"
    /\ cfg.stage_status["tasks"].status = "completed"

\* The call recorded in r was a round of work on stage s: the tool of s was
\* invoked and got past its argument, stage and prerequisite checks.
WorkRound(r, s) ==
    /\ r.op = s
    /\ r.err \notin {"missing_field", "wrong_stage", "missing_artifact"}

\* C27: for a project driven through the stage tools from NewProjectConfig the
\* iterations of a stage count the rounds of work on it.  Every stage but init
\* starts with no iteration and no round, so this says that each call adds one
\* to the iterations of the stage it did a round of work on and nothing to the
\* iterations of any other stage.
C27_IterationsCountRounds ==
    [][\A s \in ArtifactStages :
          cfg'.stage_status[s].iterations =
              cfg.stage_status[s].iterations + (IF WorkRound(last', s) THEN 1 ELSE 0)]_vars

\* The StageStatus record of stage s in ProjectConfig c; the zero record if
\* there is none.
RecordOf(c, s) ==
    IF s \in DOMAIN c.stage_status
    THEN c.stage_status[s]
    ELSE [status |-> "", started_at |-> 0, completed_at |-> 0, iterations |-> 0]

\* C28: MarkInProgress changes only the StageStatus record of the current
\* stage: status becomes in_progress, iterations goes up by exactly 1,
\* started_at becomes now only if it was unset, and completed_at, current_stage,
\* every other stage's record and the rest of the ProjectConfig stay as they
\* were, whether the stage was pending, in progress or completed.
C28_MarkInProgressFrame ==
    last.op = "MarkInProgress"
        => LET s == last.pre.current_stage
               old == RecordOf(last.pre, s)
               new == RecordOf(cfg, s)
           IN /\ new.status = "in_progress"
              /\ new.iterations = old.iterations + 1
              /\ new.started_at = IF old.started_at = 0 THEN last.now ELSE old.started_at
              /\ new.completed_at = old.completed_at
              /\ cfg.current_stage = s
              /\ DOMAIN cfg.stage_status = DOMAIN last.pre.stage_status \cup {s}
              /\ \A t \in DOMAIN last.pre.stage_status \ {s} :
                     cfg.stage_status[t] = last.pre.stage_status[t]
              /\ cfg.mode = last.pre.mode
              /\ cfg.clarity_score = last.pre.clarity_score
              /\ cfg.created_at = last.pre.created_at
              /\ cfg.updated_at = last.pre.updated_at
              /\ files = last.preFiles

\* MarkInProgress on a current stage that was already completed: reopened,
\* counted once more, its timestamps kept.
C28_Witness ==
    /\ last.op = "MarkInProgress"
    /\ last.pre.current_stage = "design"
    /\ last.pre.stage_status["design"] =
          [status |-> "completed", started_at |-> 1, completed_at |-> 1, iterations |-> 1]
    /\ cfg.stage_status["design"] =
          [status |-> "in_progress", started_at |-> 1, completed_at |-> 1, iterations |-> 2]

\* C29: the stored ordinal of a stage agrees with its position in the stage
\* sequence.  The metadata table has exactly the seven stages as keys, the Order
\* of each equals StageIndex of it, and StageIndex is -1 outside the sequence;
\* so does every StageIndex call return.
C29_OrderIsIndex ==
    /\ DOMAIN StageMetadata =
          {"init", "propose", "specify", "clarify", "design", "tasks", "validate"}
    /\ \A s \in DOMAIN StageMetadata : StageMetadata[s].Order = StageIndex(s)
    /\ \A v \in (AnyStages \cup AnyModes \cup {cfg.current_stage}) \ DOMAIN StageMetadata :
          StageIndex(v) = -1
    /\ last.op = "StageIndex"
          => last.score = IF last.arg \in DOMAIN StageMetadata
                          THEN StageMetadata[last.arg].Order ELSE -1

\* StageIndex was asked for the last stage and returned its stored ordinal, 6.
C29_Witness ==
    /\ last.op = "StageIndex"
    /\ last.arg = "validate"
    /\ last.score = 6
    /\ StageMetadata[last.arg].Order = 6

\* C30: CanAdvance, RequireStage, IsCompleted, StageIndex and ClarityThreshold
\* are read-only: whatever the input and whether they succeed or return an
\* error, the ProjectConfig (and every artifact) after the call is the one
\* before it.
C30_ReadOnly ==
    last.op \in {"CanAdvance", "RequireStage", "IsCompleted", "StageIndex", "ClarityThreshold"}
        => /\ cfg = last.pre
           /\ files = last.preFiles
           /\ clock = last.now

\* RequireStage accepted the current stage of a project whose stage had been
\* advanced, and left it as it was.
C30_Witness ==
    /\ last.op = "RequireStage"
    /\ last.err = "ok"
    /\ last.arg = "design"
    /\ cfg.current_stage = "design"
    /\ cfg = last.pre
    /\ cfg.stage_status["design"].iterations = 2

----------------------------------------------------------------------------
(* Claims about the score across rounds, checked under Spec *)

\* The clarity_score a project ends with when its very first clarify round is
\* answered with dimension_scores scores: a guided project fresh at clarify,
\* no earlier round, previous clarity_score 0.
FirstRoundScore(scores) ==
    LET fresh == AtClarify(ModeGuided)
    IN ClarifyHandle(fresh.cfg, fresh.files, 4, TRUE, scores).cfg.clarity_score

\* C31: the clarity_score an answered clarify round stores depends only on the
\* dimension_scores of that round: whatever the mode, the previous score and
\* the earlier rounds, the project ends the round with the score a fresh
\* project gets from the same input.  Dimensions the input leaves out count as
\* 0 (30, 40 and 20 on the first three dimensions alone give 13).
C31_ScoreFromInputOnly ==
    (last.op = "clarify" /\ last.input.answers /\ last.pre.current_stage = "clarify"
        /\ last.err = "ok")
        => /\ cfg.clarity_score = FirstRoundScore(last.input.scores)
           /\ last.score = cfg.clarity_score
           /\ (last.input.scores = <<IntPair("target_users", 30),
                                     IntPair("core_functionality", 40),
                                     IntPair("data_model", 20)>>)
                 => cfg.clarity_score = 13

\* A round that left dimensions out lowered the score of a project that had
\* scored 69 in an earlier round.
C31_Witness ==
    /\ last.op = "clarify"
    /\ last.input.answers
    /\ last.err = "ok"
    /\ last.pre.current_stage = "clarify"
    /\ last.pre.clarity_score = 69
    /\ Len(last.input.scores) = 3
    /\ cfg.clarity_score = 13
    /\ cfg.stage_status["clarify"].iterations >= 3

----------------------------------------------------------------------------
(* Further claims about a project from its creation on, checked under       *)
(* SpecLifecycle                                                            *)

\* C32: NewProjectConfig yields, for either mode, a project at stage propose
\* with init completed (started_at and completed_at set, one iteration), each
\* of the other six stages pending with no iteration and no timestamp, and
\* clarity_score 0.
C32_NewProjectConfig ==
    last.op = "none"
        => /\ cfg.mode \in {"guided", "expert"}
           /\ cfg.current_stage = "propose"
           /\ DOMAIN cfg.stage_status =
                 {"init", "propose", "specify", "clarify", "design", "tasks", "validate"}
           /\ cfg.stage_status["init"].status = "completed"
           /\ cfg.stage_status["init"].started_at # 0
           /\ cfg.stage_status["init"].completed_at # 0
           /\ cfg.stage_status["init"].iterations = 1
           /\ \A s \in {"propose", "specify", "clarify", "design", "tasks", "validate"} :
                 cfg.stage_status[s] = [status |-> "pending", started_at |-> 0,
                                        completed_at |-> 0, iterations |-> 0]
           /\ cfg.clarity_score = 0

\* The expert project as NewProjectConfig made it, before any call.
C32_Witness ==
    /\ last.op = "none"
    /\ cfg.mode = "expert"
    /\ cfg.current_stage = "propose"
    /\ cfg.stage_status["init"].completed_at = cfg.created_at
    /\ cfg.stage_status["validate"].status = "pending"

\* C34: in every state reached from NewProjectConfig by Advance and
\* MarkInProgress calls, every stage strictly before current_stage in the fixed
\* order is completed, and every stage strictly after it is pending with no
\* iteration, no started_at and no completed_at.
C34_BeforeCompletedAfterPending ==
    \A s \in {"init", "propose", "specify", "clarify", "design", "tasks", "validate"} :
        /\ OrdinalOf(s) < OrdinalOf(cfg.current_stage)
              => cfg.stage_status[s].status = "completed"
        /\ OrdinalOf(s) > OrdinalOf(cfg.current_stage)
              => /\ cfg.stage_status[s].status = "pending"
                 /\ cfg.stage_status[s].iterations = 0
                 /\ cfg.stage_status[s].started_at = 0
                 /\ cfg.stage_status[s].completed_at = 0

\* The current stage, design, was marked in progress again after the pipeline
\* had been advanced into it: the four stages before it completed, the two
\* after it pending.
C34_Witness ==
    /\ last.op = "MarkInProgress"
    /\ cfg.current_stage = "design"
    /\ cfg.stage_status["design"].iterations = 2
    /\ \A s \in {"init", "propose", "specify", "clarify"} :
          cfg.stage_status[s].status = "completed"
    /\ \A s \in {"tasks", "validate"} : cfg.stage_status[s].status = "pending"

----------------------------------------------------------------------------
(* Further claims about the pipeline API, checked under SpecPipeline *)

\* C33: Advance and MarkInProgress touch only current_stage and the StageStatus
\* records of the current stage and, for Advance, of the stage it enters.  They
\* never change clarity_score, mode, name, description, version, created_at or
\* updated_at, nor the record of any other stage; no call of the pipeline API
\* changes updated_at, which only a step that saves does.
C33_PipelineFrame ==
    /\ last.op \in {"Advance", "MarkInProgress"}
          => /\ cfg.clarity_score = last.pre.clarity_score
             /\ cfg.mode = last.pre.mode
             /\ cfg.name = last.pre.name
             /\ cfg.description = last.pre.description
             /\ cfg.version = last.pre.version
             /\ cfg.created_at = last.pre.created_at
             /\ cfg.updated_at = last.pre.updated_at
             /\ \A t \in DOMAIN last.pre.stage_status \ {last.pre.current_stage,
                                                          cfg.current_stage} :
                    /\ t \in DOMAIN cfg.stage_status
                    /\ cfg.stage_status[t] = last.pre.stage_status[t]
             /\ last.op = "MarkInProgress" => cfg.current_stage = last.pre.current_stage
             /\ cfg.current_stage # last.pre.current_stage
                    => <<last.pre.current_stage, cfg.current_stage>> \in SuccessorPairs
    /\ cfg.updated_at # last.pre.updated_at => StepsAt("Save") # {}

\* A successful Advance from specify to clarify: both records changed, nothing
\* else did.
C33_Witness ==
    /\ last.op = "Advance"
    /\ last.err = "ok"
    /\ last.pre.current_stage = "specify"
    /\ cfg.current_stage = "clarify"
    /\ cfg.stage_status["specify"] # last.pre.stage_status["specify"]
    /\ cfg.stage_status["clarify"] # last.pre.stage_status["clarify"]
    /\ cfg.stage_status["design"] = last.pre.stage_status["design"]
    /\ cfg.updated_at = last.pre.updated_at
    /\ cfg.name = "project"

----------------------------------------------------------------------------
(* Claims about the persisted project over a history of tool calls, checked *)
(* under Spec                                                               *)

\* C35: in every persisted state reached from NewProjectConfig through tool
\* calls only, every completed stage has started_at set, completed_at set and
\* at least one iteration.
C35_CompletedWasStarted ==
    \A s \in DOMAIN cfg.stage_status :
        cfg.stage_status[s].status = "completed"
            => /\ cfg.stage_status[s].started_at # 0
               /\ cfg.stage_status[s].completed_at # 0
               /\ cfg.stage_status[s].iterations >= 1

\* sdd_validate completed the last stage: all seven stages completed, each
\* started and counted.
C35_Witness ==
    /\ last.op = "validate"
    /\ last.err = "ok"
    /\ \A s \in DOMAIN cfg.stage_status :
          /\ cfg.stage_status[s].status = "completed"
          /\ cfg.stage_status[s].started_at # 0
          /\ cfg.stage_status[s].iterations >= 1
    /\ cfg.stage_status["propose"].iterations = 1

\* C36: in a history of tool calls only (no file is removed from outside),
\* whenever the persisted current_stage is S the artifact of every stage from
\* propose up to but excluding S exists and is not empty, so no tool is ever
\* refused for a missing prerequisite artifact.
C36_ArtifactsBehind ==
    /\ \A s \in {"propose", "specify", "clarify", "design", "tasks", "validate"} :
          OrdinalOf(s) < OrdinalOf(cfg.current_stage) => files[s] > 0
    /\ last.err # "missing_artifact"

\* sdd_validate found the five artifacts it requires and wrote its report.
C36_Witness ==
    /\ last.op = "validate"
    /\ last.err = "ok"
    /\ cfg.current_stage = "validate"
    /\ \A s \in {"propose", "specify", "clarify", "design", "tasks"} :
          last.preFiles[s] > 0
    /\ StepsAt("Read") # {}

----------------------------------------------------------------------------
(* Claims about handlers running at the same time, checked under            *)
(* SpecConcurrent                                                           *)

\* C37: under every interleaving of the Load and Save steps of two handlers
\* the persisted project satisfies the clarity gate: it is never at design,
\* tasks or validate with a clarity_score below the threshold of its mode; nor
\* is any copy a handler loaded.
C37_GateUnderInterleaving ==
    /\ cfg.current_stage \in {"design", "tasks", "validate"}
          => cfg.clarity_score >= (IF cfg.mode = "expert" THEN 50 ELSE 70)
    /\ \A h \in Handlers :
          (inflight[h].pc = "loaded"
             /\ inflight[h].cfg.current_stage \in {"design", "tasks", "validate"})
              => inflight[h].cfg.clarity_score >=
                    (IF inflight[h].cfg.mode = "expert" THEN 50 ELSE 70)

\* A clarify round that scored 49 on a copy loaded at clarify was saved over a
\* project that another handler had moved to design in the meantime.
C37_Witness ==
    /\ last.op = "clarify"
    /\ last.input.answers
    /\ last.err = "ok"
    /\ last.pre.current_stage = "design"
    /\ last.pre.clarity_score = 70
    /\ cfg.current_stage = "clarify"
    /\ cfg.clarity_score = 49

----------------------------------------------------------------------------
(* Claims about termination, checked under SpecProgress *)

\* C38: the pipeline terminates.  A project from NewProjectConfig whose caller
\* keeps invoking the tool of the current stage with valid input, and at
\* clarify with a round that passes, eventually is at validate with validate
\* completed, and stays there.  current_stage only ever moves to the next stage
\* of the seven, so at most six moves succeed, none of them after validate;
\* and clarify is left only through an answered round whose score is at least
\* the threshold: a caller that only supplies lower scores stays at clarify.
C38_Terminates ==
    /\ <>[](cfg.current_stage = "validate"
              /\ cfg.stage_status["validate"].status = "completed")
    /\ [][/\ cfg'.current_stage # cfg.current_stage
                => /\ <<cfg.current_stage, cfg'.current_stage>> \in SuccessorPairs
                   /\ OrdinalOf(cfg'.current_stage) = OrdinalOf(cfg.current_stage) + 1
                   /\ OrdinalOf(cfg'.current_stage) <= 6
          /\ cfg.current_stage = "validate" => cfg'.current_stage = "validate"
          /\ (cfg.current_stage = "clarify" /\ cfg'.current_stage # "clarify")
                => /\ last'.op = "clarify"
                   /\ last'.input.answers
                   /\ last'.score >= (IF cfg.mode = "expert" THEN 50 ELSE 70)
          /\ (cfg.current_stage = "clarify" /\ last'.op = "clarify"
                /\ last'.score < (IF cfg.mode = "expert" THEN 50 ELSE 70))
                => cfg'.current_stage = "clarify"]_vars

\* A guided project that was answered rounds below the threshold and then one
\* that passed has been validated, twice.
C38_Witness ==
    /\ last.op = "validate"
    /\ last.err = "ok"
    /\ cfg.mode = "guided"
    /\ cfg.current_stage = "validate"
    /\ cfg.stage_status["validate"].status = "completed"
    /\ cfg.stage_status["validate"].iterations >= 3
    /\ cfg.stage_status["clarify"].iterations >= 3

\* C39: clarityThresholdForMode of the context tool and ClarityThreshold of the
\* pipeline return the same value for every mode: 50 for expert, 70 for
\* guided and for any other mode string, the empty one included.  So the
\* threshold shown for a project is the one its gate enforces.
C39_SameThreshold ==
    /\ last.op \in {"ClarityThreshold", "clarityThresholdForMode"}
          => /\ last.score = (IF last.arg = "expert" THEN 50 ELSE 70)
             /\ clarityThresholdForMode(last.arg) = last.score
             /\ ClarityThreshold(last.arg) = last.score
    /\ clarityThresholdForMode(cfg.mode) = ClarityThreshold(cfg.mode)

\* The context tool's threshold was asked for the empty mode, on a project
\* whose mode is neither guided nor expert.
C39_Witness ==
    /\ last.op = "clarityThresholdForMode"
    /\ last.arg = ""
    /\ last.score = 70
    /\ cfg.mode \notin {"guided", "expert"}

=============================================================================
